---- MODULE Spec2Model ----
EXTENDS Integers, Sequences, FiniteSets, TLC

(***************************************************************************)
(* A model of basecamp-cli's authentication core: the encrypted secret     *)
(* vault (SecretStore), the session/integration store built on it, the     *)
(* loopback callback server and the login orchestration.                   *)
(***************************************************************************)

\* ------------------------------------------------------------------ values

\* Option<T>: None is the empty sequence, Some(x) a one-element sequence.
None == <<>>
Some(x) == <<x>>
IsSome(o) == o /= <<>>
Unwrap(o) == o[1]

\* AppError codes (error.rs).
GENERIC == 1
INVALID_INPUT == 2
OAUTH == 3
NO_ACCOUNT == 4
SECURE_STORAGE == 5

\* AppResult<()> as the model sees it: success, or the code of the AppError.
OkResult == [ok |-> TRUE, code |-> 0]
ErrResult(c) == [ok |-> FALSE, code |-> c]

\* The version SecretStore::save writes and the highest one load accepts.
SECRETS_VERSION == 1

\* Bounds of the model.
MaxVersion == 2
MaxOps == 2
MaxFaults == 1
TimeoutPolls == 2
MaxBacklog == 1

\* The strings the model stores in each field.
ClientSecrets == {"cs"}
AccessTokens == {"at1", "at2"}
RefreshTokens == {"rt"}
Opt(S) == {None} \cup {Some(s) : s \in S}

\* models.rs: SecretConfig, three independently optional strings.
SecretConfigs ==
    [client_secret : Opt(ClientSecrets), access_token : Opt(AccessTokens),
     refresh_token : Opt(RefreshTokens)]
DefaultSecrets == [client_secret |-> None, access_token |-> None, refresh_token |-> None]

\* ------------------------------------------------------------------ codec

\* EncryptedSecretsFile { version, secrets }.
EncryptedSecretsFile(v, s) == [kind |-> "envelope", version |-> v, secrets |-> s]

\* Bytes that are not the JSON of an EncryptedSecretsFile.
GarbageJson == [kind |-> "garbage", version |-> 0, secrets |-> DefaultSecrets]

\* serde_json::to_vec of the envelope: the JSON bytes, tagged by what they hold.
ToJson(payload) == [kind |-> "envelope", version |-> payload.version, secrets |-> payload.secrets]

\* serde_json::from_slice::<EncryptedSecretsFile>: fails on anything that is not
\* the JSON of an envelope.
FromJson(bytes) ==
    IF bytes.kind = "envelope"
    THEN [ok |-> TRUE, value |-> EncryptedSecretsFile(bytes.version, bytes.secrets)]
    ELSE [ok |-> FALSE, value |-> EncryptedSecretsFile(0, DefaultSecrets)]

\* age scrypt encryption: the ciphertext is bound to the passphrase; `whole`
\* is FALSE for a truncated or corrupted byte string.
encrypt_with_passphrase(plaintext, passphrase) ==
    [key |-> passphrase, pt |-> plaintext, whole |-> TRUE]

\* age decryption is authenticated: it yields the plaintext only for intact
\* bytes under the passphrase that encrypted them.
decrypt_with_passphrase(ciphertext, passphrase) ==
    IF ciphertext.whole /\ ciphertext.key = passphrase
    THEN [ok |-> TRUE, value |-> ciphertext.pt]
    ELSE [ok |-> FALSE, value |-> GarbageJson]

\* DecodeSecrets with a decrypt failure read as "no secrets yet".
DecodeSecretsOrDefault(ciphertext, passphrase) ==
    LET plain == decrypt_with_passphrase(ciphertext, passphrase)
        parsed == FromJson(plain.value)
    IN  IF ~plain.ok THEN [ok |-> TRUE, value |-> DefaultSecrets]
        ELSE IF ~parsed.ok THEN [ok |-> FALSE, value |-> DefaultSecrets]
        ELSE IF parsed.value.version > SECRETS_VERSION
             THEN [ok |-> FALSE, value |-> DefaultSecrets]
        ELSE [ok |-> TRUE, value |-> parsed.value.secrets]

\* DecodeSecrets without the version check.
DecodeSecretsAnyVersion(ciphertext, passphrase) ==
    LET plain == decrypt_with_passphrase(ciphertext, passphrase)
        parsed == FromJson(plain.value)
    IN  IF ~plain.ok THEN [ok |-> FALSE, value |-> DefaultSecrets]
        ELSE IF ~parsed.ok THEN [ok |-> FALSE, value |-> DefaultSecrets]
        ELSE [ok |-> TRUE, value |-> parsed.value.secrets]

\* The tail of SecretStore::load: decrypt, parse, check the version.
DecodeSecrets(ciphertext, passphrase) ==
    LET plain == decrypt_with_passphrase(ciphertext, passphrase)
        parsed == FromJson(plain.value)
    IN  IF ~plain.ok THEN [ok |-> FALSE, value |-> DefaultSecrets]
        ELSE IF ~parsed.ok THEN [ok |-> FALSE, value |-> DefaultSecrets]
        ELSE IF parsed.value.version > SECRETS_VERSION
             THEN [ok |-> FALSE, value |-> DefaultSecrets]
        ELSE [ok |-> TRUE, value |-> parsed.value.secrets]

\* EncodeSecrets writing a version the loader does not accept.
EncodeSecretsNextVersion(secrets, passphrase) ==
    encrypt_with_passphrase(ToJson(EncryptedSecretsFile(SECRETS_VERSION + 1, secrets)), passphrase)

\* The head of SecretStore::save: wrap in the current version, serialize, encrypt.
EncodeSecrets(secrets, passphrase) ==
    encrypt_with_passphrase(ToJson(EncryptedSecretsFile(SECRETS_VERSION, secrets)), passphrase)

\* A partially written or damaged copy of the same bytes.
Truncated(ciphertext) == [ciphertext EXCEPT !.whole = FALSE]


\* ------------------------------------------------------------------ URIs

\* A redirect URI as given on the command line: whether it has URL syntax at
\* all, and its scheme, host, port (None when the text has no ":port") and path
\* as written.
Uri(syntax, scheme, host, port, path) ==
    [syntax |-> syntax, scheme |-> scheme, host |-> host, port |-> port, path |-> path]
GoodUri == Uri(TRUE, "http", "127.0.0.1", Some(45455), "/callback")
BadUri == Uri(FALSE, "", "", None, "")

\* ASCII lower case, on the strings the model uses.
Lower(str) ==
    CASE str = "HTTP" -> "http"
      [] str = "LOCALHOST" -> "localhost"
      [] OTHER -> str

\* The schemes the url crate calls special, and their default ports.
SpecialSchemes == {"http", "https", "ftp"}
DefaultPort(scheme) ==
    CASE scheme = "http" -> Some(80)
      [] scheme = "https" -> Some(443)
      [] scheme = "ftp" -> Some(21)
      [] OTHER -> None

\* Url::parse, and the accessors scheme(), host_str(), port() and path() of
\* its result: scheme and host come out in lower case, a special scheme needs
\* a host and has at least the path "/", and port() is None both without a
\* port and with the scheme's default port.
UrlParse(uri) ==
    LET scheme == Lower(uri.scheme) IN
    IF ~uri.syntax \/ (scheme \in SpecialSchemes /\ uri.host = "")
    THEN [ok |-> FALSE, scheme |-> "", host |-> None, port |-> None, path |-> ""]
    ELSE [ok |-> TRUE,
          scheme |-> scheme,
          host |-> IF uri.host = "" THEN None ELSE Some(Lower(uri.host)),
          port |-> IF uri.port = DefaultPort(scheme) THEN None ELSE uri.port,
          path |-> IF scheme \in SpecialSchemes /\ uri.path = "" THEN "/" ELSE uri.path]

\* ------------------------------------------------------------------ config

\* models.rs: AppConfig { integration, session }.
DefaultIntegration == [client_id |-> None, redirect_uri |-> None]
DefaultSession ==
    [account_id |-> None, account_name |-> None, account_href |-> None, updated_at |-> None]
DefaultConfig == [integration |-> DefaultIntegration, session |-> DefaultSession]

\* What the bytes of config.json are: the pretty JSON of an AppConfig, nothing
\* (a created or truncated file not yet written), or a proper prefix of the JSON.
JsonFile(cfg) == [kind |-> "json", cfg |-> cfg]
EmptyFile == [kind |-> "empty", cfg |-> DefaultConfig]
PartialFile(cfg) == [kind |-> "partial", cfg |-> cfg]

\* read_json_file for which a missing file is an error.
read_json_file_must_exist(file) ==
    IF file = None THEN [ok |-> FALSE, value |-> DefaultConfig]
    ELSE IF Unwrap(file).data.kind = "empty" THEN [ok |-> TRUE, value |-> DefaultConfig]
    ELSE IF Unwrap(file).data.kind = "json" THEN [ok |-> TRUE, value |-> Unwrap(file).data.cfg]
    ELSE [ok |-> FALSE, value |-> DefaultConfig]

\* read_json_file: a missing or blank file is the default value, anything else
\* must parse.
read_json_file(file) ==
    IF file = None THEN [ok |-> TRUE, value |-> DefaultConfig]
    ELSE IF Unwrap(file).data.kind = "empty" THEN [ok |-> TRUE, value |-> DefaultConfig]
    ELSE IF Unwrap(file).data.kind = "json" THEN [ok |-> TRUE, value |-> Unwrap(file).data.cfg]
    ELSE [ok |-> FALSE, value |-> DefaultConfig]

\* ------------------------------------------------------------------ state

Procs == {"p1", "p2"}

VARIABLES
    keyring,     \* the keyring entry of this config directory: None or Some(passphrase)
    nextKey,     \* the passphrases generated so far (each generate_passphrase is fresh)
    configDir,   \* whether the config directory exists
    secretsDir,  \* the secrets/ directory: None, or Some(mode)
    vaultFile,   \* secrets/local.age: None, or Some([data, mode])
    tmpFiles,    \* the names of the temporary files in secrets/
    configFile,  \* config.json: None, or Some([data, mode])
    faultsOn,    \* whether the environment (disk, keyring) may fail calls
    api,         \* the call of the Basecamp API client in progress, and its outcome
    srv,         \* the callback server of a login: the bind call and its listener
    login,       \* login::run: its position, its locals, and the calls it made
    proc         \* per process: position, locals and what it did in this command
                 \* (vault0, config0, keyring0: the files as the command started;
                 \* wrote, krCalls, krError, saveOk: what it has done since;
                 \* saved: the secrets of the last save that returned Ok, None
                 \* once the vault file was replaced again)

vars == <<keyring, nextKey, configDir, secretsDir, vaultFile, tmpFiles, configFile, faultsOn, api, srv, login, proc>>

files == <<keyring, nextKey, configDir, secretsDir, vaultFile, tmpFiles, configFile>>

\* The arguments of a command, in one shape for all commands.
DefaultArg ==
    [secrets |-> DefaultSecrets, client_id |-> "", redirect_uri |-> BadUri,
     session |-> DefaultSession, forget_client |-> FALSE]

\* No CallbackServer::bind call yet.
NoServer ==
    [pc |-> "unbound", uri |-> BadUri, osGrants |-> FALSE, result |-> None, listener |-> None,
     expected_path |-> "", socketCalls |-> 0,
     now |-> 0, deadline |-> None, backlog |-> <<>>, accepted |-> 0, request |-> None,
     responses |-> <<>>, payload |-> None, message |-> "", acceptFailed |-> FALSE, reset |-> 0,
     stream_nonblocking |-> FALSE]

\* No login started.
IdleLogin ==
    [pc |-> "idle", redirect_uri |-> BadUri, expected_state |-> None, callback |-> None,
     tokens |-> None, accounts |-> <<>>, account |-> None, result |-> None,
     exchangeCalls |-> 0, steps |-> <<>>, inputs |-> None, resolved |-> None, missing |-> "",
     selection |-> None, response |-> None, outcome |-> None, exit_code |-> None,
     vault0 |-> None, config0 |-> None]

\* The API client before a call: no request sent.
IdleCall ==
    [pc |-> "idle", call |-> "none", not_found_message |-> None, status |-> 0,
     checked |-> None, result |-> None]

\* A process that runs no command.
IdleProc ==
    [pc |-> "idle", cmd |-> "none", fn |-> "none", queue |-> <<>>, stack |-> <<>>,
     arg |-> DefaultArg, secrets |-> DefaultSecrets, config |-> DefaultConfig,
     ciphertext |-> EncodeSecrets(DefaultSecrets, 0), passphrase |-> None,
     tmp |-> None, tmpData |-> Truncated(EncodeSecrets(DefaultSecrets, 0)), result |-> None, failedAt |-> "none", ops |-> 0, faults |-> 0,
     vault0 |-> None, config0 |-> None, keyring0 |-> None, wrote |-> {}, krCalls |-> 0,
     krError |-> FALSE, saveOk |-> FALSE, saved |-> None, prev |-> "none"]

\* `?` on an error: the command ends with the error made at `site`.
Fail(r, code, site) ==
    [r EXCEPT !.pc = "done", !.result = Some(ErrResult(code)), !.failedAt = site,
              !.stack = <<>>, !.queue = <<>>]

\* An error that the environment caused (a failing disk or keyring call).
EnvFail(r, code, site) == Fail([r EXCEPT !.faults = r.faults + 1], code, site)

\* A call: run from `entry`, then continue at `cont`.
Call(r, entry, cont) == [r EXCEPT !.pc = entry, !.stack = <<cont>> \o r.stack]

\* Ok(..) from the function that was called; the outermost one ends the command.
Ret(r) ==
    IF r.stack = <<>>
    THEN [r EXCEPT !.pc = "done", !.result = Some(OkResult)]
    ELSE [r EXCEPT !.pc = Head(r.stack), !.stack = Tail(r.stack)]

\* A step of process p, which is no step of a login.
Set(p, r) == proc' = [proc EXCEPT ![p] = r] /\ UNCHANGED <<srv, login>>

\* Whether the environment may fail the call process p is about to make.
CanFault(p) == faultsOn /\ proc[p].faults < MaxFaults

Wrote(r, what) == [r EXCEPT !.wrote = r.wrote \cup {what}]

\* ------------------------------------------------------------------ keyring

\* The passphrase generate_passphrase returns: 32 fresh random bytes, so one
\* that no earlier call returned.
generate_passphrase == nextKey + 1

\* load_or_create_passphrase, Entry::new: the keyring backend may refuse.
KeyringEntryNew(p) ==
    LET me == proc[p] IN
    /\ me.pc = "kr_new"
    /\ \/ /\ Set(p, [me EXCEPT !.pc = "kr_get", !.krCalls = me.krCalls + 1])
       \/ /\ CanFault(p)
          /\ Set(p, EnvFail([me EXCEPT !.krCalls = me.krCalls + 1, !.krError = TRUE],
                            SECURE_STORAGE, "kr_new"))
    /\ UNCHANGED <<files, faultsOn, api>>

\* OnKeyringReadError falling back to a built-in passphrase.
OnKeyringReadErrorFallback(r) == Ret([r EXCEPT !.passphrase = Some(0)])

\* What load_or_create_passphrase does with an error of get_password that is
\* not NoEntry.
OnKeyringReadError(r) == EnvFail(r, SECURE_STORAGE, "kr_get")

\* What load_or_create_passphrase does when set_password fails.
OnKeyringPersistError(r) == EnvFail(r, SECURE_STORAGE, "kr_set")

\* entry.get_password(): the stored passphrase, NoEntry (then a fresh one is
\* generated and has to be persisted) or another error.
KeyringGet(p) ==
    LET me == [proc[p] EXCEPT !.krCalls = proc[p].krCalls + 1] IN
    /\ proc[p].pc = "kr_get"
    /\ \/ /\ IsSome(keyring)
          /\ Set(p, Ret([me EXCEPT !.passphrase = keyring]))
          /\ UNCHANGED nextKey
       \/ /\ keyring = None
          /\ nextKey' = generate_passphrase
          /\ Set(p, [me EXCEPT !.pc = "kr_set", !.passphrase = Some(generate_passphrase)])
       \/ /\ CanFault(p)
          /\ Set(p, OnKeyringReadError([me EXCEPT !.krError = TRUE]))
          /\ UNCHANGED nextKey
    /\ UNCHANGED <<keyring, configDir, secretsDir, vaultFile, tmpFiles, configFile, faultsOn, api>>

\* entry.set_password(generated): persists the generated passphrase, or fails.
KeyringSet(p) ==
    LET me == [proc[p] EXCEPT !.krCalls = proc[p].krCalls + 1] IN
    /\ proc[p].pc = "kr_set"
    /\ \/ /\ keyring' = me.passphrase
          /\ Set(p, Ret(Wrote(me, "keyring")))
       \/ /\ CanFault(p)
          /\ Set(p, OnKeyringPersistError([me EXCEPT !.krError = TRUE]))
          /\ UNCHANGED keyring
    /\ UNCHANGED <<nextKey, configDir, secretsDir, vaultFile, tmpFiles, configFile, faultsOn, api>>

\* ------------------------------------------------------------------ SecretStore::load

\* LoadWhenMissing without the early return: on to the passphrase and the decoding.
LoadWhenMissingNoReturn(r) == Call(r, "kr_new", "ld_decode")

\* The first statement of load: a missing vault file is the first-run state.
LoadWhenMissing(r) == Ret([r EXCEPT !.secrets = DefaultSecrets])

\* path.exists()
LoadExists(p) ==
    LET me == proc[p] IN
    /\ me.pc = "ld_exists"
    /\ IF vaultFile = None
       THEN Set(p, LoadWhenMissing(me))
       ELSE Set(p, [me EXCEPT !.pc = "ld_read"])
    /\ UNCHANGED <<files, faultsOn, api>>

\* fs::read(&path), then the call of load_or_create_passphrase.
LoadRead(p) ==
    LET me == proc[p] IN
    /\ me.pc = "ld_read"
    /\ \/ /\ IsSome(vaultFile)
          /\ Set(p, Call([me EXCEPT !.ciphertext = Unwrap(vaultFile).data], "kr_new", "ld_decode"))
       \/ /\ CanFault(p)
          /\ Set(p, EnvFail(me, SECURE_STORAGE, "ld_read"))
    /\ UNCHANGED <<files, faultsOn, api>>

\* decrypt_with_passphrase, serde_json::from_slice and the version check.
LoadDecode(p) ==
    LET me == proc[p]
        got == DecodeSecrets(me.ciphertext, Unwrap(me.passphrase))
    IN
    /\ me.pc = "ld_decode"
    /\ IF got.ok
       THEN Set(p, Ret([me EXCEPT !.secrets = got.value]))
       ELSE Set(p, Fail(me, SECURE_STORAGE, "ld_decode"))
    /\ UNCHANGED <<files, faultsOn, api>>

\* ------------------------------------------------------------------ SecretStore::save

\* ensure_secrets_dir: fs::create_dir_all(secrets_dir).
SaveMkdir(p) ==
    LET me == proc[p] IN
    /\ me.pc = "sv_mkdir"
    /\ \/ /\ configDir' = TRUE
          /\ secretsDir' = IF secretsDir = None THEN Some("default") ELSE secretsDir
          /\ Set(p, [(IF secretsDir = None THEN Wrote(me, "secrets_dir") ELSE me)
                        EXCEPT !.pc = "sv_dirperm"])
       \/ /\ CanFault(p)
          /\ Set(p, EnvFail(me, SECURE_STORAGE, "sv_mkdir"))
          /\ UNCHANGED <<configDir, secretsDir>>
    /\ UNCHANGED <<keyring, nextKey, vaultFile, tmpFiles, configFile, faultsOn, api>>

\* ensure_secrets_dir: set_secure_dir_permissions (0700), then the call of
\* load_or_create_passphrase.
SaveDirPerm(p) ==
    LET me == proc[p] IN
    /\ me.pc = "sv_dirperm"
    /\ \/ /\ secretsDir' = Some("0700")
          /\ Set(p, Call(me, "kr_new", "wf_open"))
       \/ /\ CanFault(p)
          /\ Set(p, EnvFail(me, SECURE_STORAGE, "sv_dirperm"))
          /\ UNCHANGED secretsDir
    /\ UNCHANGED <<keyring, nextKey, configDir, vaultFile, tmpFiles, configFile, faultsOn, api>>

\* The clock readings (nanoseconds since the epoch) a write may see.
Nonces == {"n1", "n2"}

\* The name of the temporary file: process id and the clock's nanoseconds.
TmpName(p, nonce) == <<p, nonce>>

\* serialize and encrypt (neither fails on these values), then
\* write_file_atomically's OpenOptions create_new: fails when the name is taken.
\* The bytes of a temporary file are read by nobody but the rename of the
\* process that created it, so they are kept with that process (tmpData).
WriteOpen(p) ==
    LET me == proc[p]
        bytes == EncodeSecrets(me.secrets, Unwrap(me.passphrase))
    IN
    /\ me.pc = "wf_open"
    /\ \E nonce \in Nonces :
        LET name == TmpName(p, nonce) IN
        \/ /\ name \notin tmpFiles
           /\ tmpFiles' = tmpFiles \cup {name}
           /\ Set(p, [Wrote(me, "tmp") EXCEPT !.pc = "wf_write", !.ciphertext = bytes,
                                             !.tmp = Some(name),
                                             !.tmpData = Truncated(bytes)])
        \/ /\ name \in tmpFiles
           /\ Set(p, Fail(me, SECURE_STORAGE, "wf_open"))
           /\ UNCHANGED tmpFiles
        \/ /\ CanFault(p)
           /\ Set(p, EnvFail(me, SECURE_STORAGE, "wf_open"))
           /\ UNCHANGED tmpFiles
    /\ UNCHANGED <<keyring, nextKey, configDir, secretsDir, vaultFile, configFile, faultsOn, api>>

\* OnTmpWriteError with the error dropped: on to the next statement.
OnTmpWriteErrorIgnored(r, site) ==
    [r EXCEPT !.pc = IF site = "wf_write" THEN "wf_sync" ELSE "wf_rename"]

\* What write_file_atomically does when write_all or sync_all fails.
OnTmpWriteError(r, site) == EnvFail(r, SECURE_STORAGE, site)

\* tmp_file.write_all(contents): all the bytes, or an error with some of them.
WriteAll(p) ==
    LET me == proc[p] IN
    /\ me.pc = "wf_write"
    /\ \/ Set(p, [me EXCEPT !.pc = "wf_sync", !.tmpData = me.ciphertext])
       \/ /\ CanFault(p)
          /\ Set(p, OnTmpWriteError(me, "wf_write"))
    /\ UNCHANGED <<files, faultsOn, api>>

\* tmp_file.sync_all()
WriteSync(p) ==
    LET me == proc[p] IN
    /\ me.pc = "wf_sync"
    /\ \/ Set(p, [me EXCEPT !.pc = "wf_rename"])
       \/ /\ CanFault(p)
          /\ Set(p, OnTmpWriteError(me, "wf_sync"))
    /\ UNCHANGED <<files, faultsOn, api>>

\* The destination written in place: a reader may find a prefix of the bytes.
RenamedInPlace(bytes) == Some([data |-> Truncated(bytes), mode |-> "default"])

\* The destination after fs::rename(tmp, path): the temporary file's bytes,
\* under the mode the temporary file was created with.
Renamed(bytes) == Some([data |-> bytes, mode |-> "default"])

\* fs::rename(&tmp_path, path); on an error the temporary file is removed
\* (remove_file's own result is dropped).
WriteRename(p) ==
    LET me == proc[p]
        name == Unwrap(me.tmp)
    IN
    /\ me.pc = "wf_rename"
    /\ \/ /\ vaultFile' = Renamed(me.tmpData)
          /\ tmpFiles' = tmpFiles \ {name}
          /\ Set(p, [Wrote(me, "vault") EXCEPT !.pc = "sv_fileperm", !.saved = None])
       \/ /\ CanFault(p)
          /\ \/ tmpFiles' = tmpFiles \ {name}
             \/ tmpFiles' = tmpFiles
          /\ Set(p, EnvFail(me, SECURE_STORAGE, "wf_rename"))
          /\ UNCHANGED vaultFile
    /\ UNCHANGED <<keyring, nextKey, configDir, secretsDir, configFile, faultsOn, api>>

\* A write that returned Ok without the chmod of the vault file.
set_secure_file_permissions_skipped(file) == file

\* set_secure_file_permissions (cfg(unix)): fs::set_permissions, mode 0o600.
set_secure_file_permissions(file) == [file EXCEPT !.mode = "0600"]

\* The last step of save: set_secure_file_permissions(&path), then Ok(()).
SaveFilePerm(p) ==
    LET me == proc[p] IN
    /\ me.pc = "sv_fileperm"
    /\ \/ /\ IsSome(vaultFile)
          /\ vaultFile' = Some(set_secure_file_permissions(Unwrap(vaultFile)))
          /\ Set(p, Ret([me EXCEPT !.saveOk = TRUE, !.saved = Some(me.secrets)]))
       \/ /\ CanFault(p)
          /\ Set(p, EnvFail(me, SECURE_STORAGE, "sv_fileperm"))
          /\ UNCHANGED vaultFile
    /\ UNCHANGED <<keyring, nextKey, configDir, secretsDir, tmpFiles, configFile, faultsOn, api>>

\* ------------------------------------------------------------------ integration.rs

Blank(str) == str \in {"", " "}

\* validate_non_empty: value.trim().is_empty() is an invalid-input error.
validate_non_empty(value) == ~Blank(value)

\* The secrets each function stores, from the ones it loaded.
ModifySecrets(fn, secrets, arg) ==
    CASE fn = "set_integration" ->
            [secrets EXCEPT !.client_secret = arg.secrets.client_secret]
      [] fn = "clear_integration_only" ->
            [secrets EXCEPT !.client_secret = None]
      [] fn = "clear_session" ->
            [secrets EXCEPT !.access_token = None, !.refresh_token = None]
      [] fn = "save_session" ->
            [secrets EXCEPT !.access_token = arg.secrets.access_token,
                            !.refresh_token = arg.secrets.refresh_token]

\* ModifyConfig building the config anew instead of from the loaded one.
ModifyConfigFresh(fn, config, arg, now) ==
    CASE fn = "set_integration" ->
            [DefaultConfig EXCEPT !.integration.client_id = Some(arg.client_id),
                                  !.integration.redirect_uri = Some(arg.redirect_uri)]
      [] fn = "clear_integration_only" -> DefaultConfig
      [] fn = "clear_session" -> DefaultConfig
      [] fn = "save_session" ->
            [DefaultConfig EXCEPT !.session.account_id = arg.session.account_id,
                                  !.session.account_name = arg.session.account_name,
                                  !.session.account_href = arg.session.account_href,
                                  !.session.updated_at = Some(now)]

\* The config each function stores, from the one it loaded.
ModifyConfig(fn, config, arg, now) ==
    CASE fn = "set_integration" ->
            [config EXCEPT !.integration.client_id = Some(arg.client_id),
                           !.integration.redirect_uri = Some(arg.redirect_uri)]
      [] fn = "clear_integration_only" ->
            [config EXCEPT !.integration.client_id = None,
                           !.integration.redirect_uri = None]
      [] fn = "clear_session" ->
            [config EXCEPT !.session = DefaultSession]
      [] fn = "save_session" ->
            [config EXCEPT !.session.account_id = arg.session.account_id,
                           !.session.account_name = arg.session.account_name,
                           !.session.account_href = arg.session.account_href,
                           !.session.updated_at = Some(now)]

\* Plan with the config written before the vault.
PlanConfigFirst(fn) == <<"fn_load_config", "fn_save_config", "fn_load_secrets", "fn_save_secrets">>

\* The statements of set_integration, clear_integration_only, clear_session
\* and save_session after the validation, in order; each ends in `?`.
\* resolve_login_credentials loads the config and the secrets and stores nothing.
Plan(fn) ==
    IF fn = "resolve_login_credentials"
    THEN <<"fn_load_config", "fn_load_secrets">>
    ELSE <<"fn_load_secrets", "fn_save_secrets", "fn_load_config", "fn_save_config">>

\* validate_redirect_uri: parses, http or https, has a host.
validate_redirect_uri(uri) ==
    LET parsed == UrlParse(uri) IN
    /\ parsed.ok
    /\ parsed.scheme \in {"http", "https"}
    /\ IsSome(parsed.host)

\* The head of a function: set_integration validates its arguments first.
FnBegin(p) ==
    LET me == proc[p] IN
    /\ me.pc = "fn_begin"
    /\ IF me.fn = "set_integration"
          /\ ~(/\ validate_non_empty(me.arg.client_id)
               /\ validate_non_empty(Unwrap(me.arg.secrets.client_secret))
               /\ validate_redirect_uri(me.arg.redirect_uri))
       THEN Set(p, Fail(me, INVALID_INPUT, "fn_begin"))
       ELSE Set(p, [me EXCEPT !.pc = Head(Plan(me.fn)),
                              !.stack = Tail(Plan(me.fn)) \o <<"fn_end">>])
    /\ UNCHANGED <<files, faultsOn, api>>

\* load_secrets(): secret_store() ensures the config directory, then load.
FnLoadSecrets(p) ==
    LET me == proc[p] IN
    /\ me.pc = "fn_load_secrets"
    /\ \/ /\ configDir' = TRUE
          /\ Set(p, [(IF configDir THEN me ELSE Wrote(me, "config_dir")) EXCEPT !.pc = "ld_exists"])
       \/ /\ CanFault(p)
          /\ Set(p, EnvFail(me, GENERIC, "fn_load_secrets"))
          /\ UNCHANGED configDir
    /\ UNCHANGED <<keyring, nextKey, secretsDir, vaultFile, tmpFiles, configFile, faultsOn, api>>

\* The assignments to the loaded secrets, then save_secrets(): secret_store()
\* ensures the config directory, then save.
FnSaveSecrets(p) ==
    LET me == proc[p] IN
    /\ me.pc = "fn_save_secrets"
    /\ \/ /\ configDir' = TRUE
          /\ Set(p, [(IF configDir THEN me ELSE Wrote(me, "config_dir"))
                        EXCEPT !.pc = "sv_mkdir",
                               !.secrets = ModifySecrets(me.fn, me.secrets, me.arg)])
       \/ /\ CanFault(p)
          /\ Set(p, EnvFail(me, GENERIC, "fn_save_secrets"))
          /\ UNCHANGED configDir
    /\ UNCHANGED <<keyring, nextKey, secretsDir, vaultFile, tmpFiles, configFile, faultsOn, api>>

\* load_config(): config_path() ensures the config directory, then
\* read_json_file; every error becomes a generic one.
FnLoadConfig(p) ==
    LET me == proc[p]
        got == read_json_file(configFile)
    IN
    /\ me.pc = "fn_load_config"
    /\ \/ /\ got.ok
          /\ configDir' = TRUE
          /\ Set(p, Ret([(IF configDir THEN me ELSE Wrote(me, "config_dir"))
                            EXCEPT !.config = got.value]))
       \/ /\ ~got.ok
          /\ Set(p, Fail(me, GENERIC, "fn_load_config"))
          /\ UNCHANGED configDir
       \/ /\ CanFault(p)
          /\ Set(p, EnvFail(me, GENERIC, "fn_load_config"))
          /\ UNCHANGED configDir
    /\ UNCHANGED <<keyring, nextKey, secretsDir, vaultFile, tmpFiles, configFile, faultsOn, api>>

Timestamps == {"t1"}

\* The assignments to the loaded config, then save_config(): config_path(),
\* and fs::write's File::create, which creates or truncates config.json.
FnSaveConfig(p) ==
    LET me == proc[p] IN
    /\ me.pc = "fn_save_config"
    /\ \/ \E now \in Timestamps :
          LET cfg == ModifyConfig(me.fn, me.config, me.arg, now) IN
          /\ me.fn /= "save_session" => now = "t1"
          /\ configDir' = TRUE
          /\ configFile' = Some([data |-> EmptyFile,
                                 mode |-> IF configFile = None THEN "default"
                                          ELSE Unwrap(configFile).mode])
          /\ Set(p, [Wrote(me, "config") EXCEPT !.pc = "sc_write", !.config = cfg])
       \/ /\ CanFault(p)
          /\ Set(p, EnvFail(me, GENERIC, "fn_save_config"))
          /\ UNCHANGED <<configDir, configFile>>
    /\ UNCHANGED <<keyring, nextKey, secretsDir, vaultFile, tmpFiles, faultsOn, api>>

\* fs::write's write_all: the whole JSON, or an error with a prefix of it.
ConfigWrite(p) ==
    LET me == proc[p] IN
    /\ me.pc = "sc_write"
    /\ IsSome(configFile)
    /\ \/ /\ configFile' = Some([Unwrap(configFile) EXCEPT !.data = JsonFile(me.config)])
          /\ Set(p, [me EXCEPT !.pc = "sc_perm"])
       \/ /\ CanFault(p)
          /\ configFile' = Some([Unwrap(configFile) EXCEPT !.data = PartialFile(me.config)])
          /\ Set(p, EnvFail(me, GENERIC, "sc_write"))
    /\ UNCHANGED <<keyring, nextKey, configDir, secretsDir, vaultFile, tmpFiles, faultsOn, api>>

\* lock_down_permissions (cfg(unix)): fs::set_permissions, mode 0o600.
lock_down_permissions(file) == [file EXCEPT !.mode = "0600"]

\* The last step of save_config: lock_down_permissions(&path, false), then Ok(()).
ConfigPerm(p) ==
    LET me == proc[p] IN
    /\ me.pc = "sc_perm"
    /\ IsSome(configFile)
    /\ \/ /\ configFile' = Some(lock_down_permissions(Unwrap(configFile)))
          /\ Set(p, Ret(me))
       \/ /\ CanFault(p)
          /\ Set(p, EnvFail(me, GENERIC, "sc_perm"))
          /\ UNCHANGED configFile
    /\ UNCHANGED <<keyring, nextKey, configDir, secretsDir, vaultFile, tmpFiles, faultsOn, api>>

\* Ok(()) of a function: the command goes on with its next function, or ends.
FnEnd(p) ==
    LET me == proc[p] IN
    /\ me.pc = "fn_end"
    /\ IF me.queue = <<>>
       THEN Set(p, Ret(me))
       ELSE Set(p, [me EXCEPT !.pc = "fn_begin", !.fn = Head(me.queue), !.queue = Tail(me.queue)])
    /\ UNCHANGED <<files, faultsOn, api>>

\* ------------------------------------------------------------------ commands

\* A process may start a command when it runs none.
CanStart(p) == proc[p].pc \in {"idle", "done", "crashed"} /\ proc[p].ops < MaxOps

\* The process as the command starts: fresh locals, and what the disk and the
\* keyring held at that moment.
Begin(p, cmd, fn, queue, arg, entry) ==
    [IdleProc EXCEPT !.pc = entry, !.cmd = cmd, !.fn = fn, !.queue = queue, !.arg = arg,
                     !.secrets = arg.secrets, !.ops = proc[p].ops + 1,
                     !.faults = proc[p].faults, !.saved = proc[p].saved,
                     !.vault0 = vaultFile, !.config0 = configFile, !.keyring0 = keyring]

\* SecretStore::load called on its own.
StartLoad(p) ==
    /\ CanStart(p)
    /\ Set(p, Begin(p, "load", "none", <<>>, DefaultArg, "ld_exists"))
    /\ UNCHANGED <<files, faultsOn, api>>

\* The values save is called with: every combination of present and absent fields.
SaveInputs == {s \in SecretConfigs : s.access_token /= Some("at2")}

\* SecretStore::save(secrets) called on its own.
StartSave(p) ==
    /\ CanStart(p)
    /\ \E v \in SaveInputs :
          Set(p, Begin(p, "save", "none", <<>>, [DefaultArg EXCEPT !.secrets = v], "sv_mkdir"))
    /\ UNCHANGED <<files, faultsOn, api>>

ClientIds == {"id", ""}
RedirectUris == {GoodUri, BadUri}
AccountIds == {1, 2}

\* `basecamp integration set`: set_integration(client_id, client_secret, redirect_uri).
StartSetIntegration(p) ==
    /\ CanStart(p)
    /\ \E id \in ClientIds, secret \in ClientSecrets \cup {""}, uri \in RedirectUris :
          /\ (IF Blank(id) THEN 1 ELSE 0) + (IF Blank(secret) THEN 1 ELSE 0)
                + (IF uri = BadUri THEN 1 ELSE 0) <= 1
          /\ Set(p, Begin(p, "set_integration", "set_integration", <<>>,
                       [DefaultArg EXCEPT !.client_id = id, !.redirect_uri = uri,
                                          !.secrets.client_secret = Some(secret)],
                       "fn_begin"))
    /\ UNCHANGED <<files, faultsOn, api>>

\* The command a clearing command follows, when that one returned Ok.
After(p, r) ==
    [r EXCEPT !.prev = IF proc[p].pc = "done" /\ proc[p].result = Some(OkResult)
                       THEN proc[p].cmd ELSE "none"]

\* clear_integration_only, clear_session, and clear_integration_and_session,
\* which is the first and then the second.
StartClear(p) ==
    /\ CanStart(p)
    /\ \/ Set(p, After(p, Begin(p, "clear_integration_only", "clear_integration_only", <<>>,
                                DefaultArg, "fn_begin")))
       \/ Set(p, After(p, Begin(p, "clear_session", "clear_session", <<>>, DefaultArg,
                                "fn_begin")))
       \/ Set(p, After(p, Begin(p, "clear_integration_and_session", "clear_integration_only",
                                <<"clear_session">>, DefaultArg, "fn_begin")))
    /\ UNCHANGED <<files, faultsOn, api>>

\* logout::run: clear_session, then clear_integration_only with --forget-client.
StartLogout(p) ==
    /\ CanStart(p)
    /\ \E forget \in BOOLEAN :
          Set(p, After(p, Begin(p, IF forget THEN "logout --forget-client" ELSE "logout",
                                "clear_session",
                                IF forget THEN <<"clear_integration_only">> ELSE <<>>,
                                [DefaultArg EXCEPT !.forget_client = forget], "fn_begin")))
    /\ UNCHANGED <<files, faultsOn, api>>

\* SessionData of the account with this id.
SessionOf(id) ==
    [account_id |-> Some(id), account_name |-> Some("name"), account_href |-> Some("href"),
     updated_at |-> None]

\* save_session(data), the last step of a login.
StartSaveSession(p) ==
    /\ CanStart(p)
    /\ \E at \in AccessTokens, rt \in RefreshTokens, id \in AccountIds :
          /\ (at = "at1") = (id = 1)
          /\ Set(p, Begin(p, "save_session", "save_session", <<>>,
                       [DefaultArg EXCEPT !.secrets.access_token = Some(at),
                                          !.secrets.refresh_token = Some(rt),
                                          !.session = SessionOf(id)],
                       "fn_begin"))
    /\ UNCHANGED <<files, faultsOn, api>>

\* The process is killed in the middle of a command.
Crash(p) ==
    /\ CanFault(p)
    /\ proc[p].pc \notin {"idle", "done", "crashed", "off"}
    /\ Set(p, [proc[p] EXCEPT !.pc = "crashed", !.stack = <<>>, !.queue = <<>>,
                              !.faults = proc[p].faults + 1])
    /\ UNCHANGED <<files, faultsOn, api>>

\* ------------------------------------------------------------------ initial states

FullSecrets ==
    [client_secret |-> Some("cs"), access_token |-> Some("at1"), refresh_token |-> Some("rt")]
FullConfig ==
    [integration |-> [client_id |-> Some("id"), redirect_uri |-> Some(GoodUri)],
     session |-> [SessionOf(1) EXCEPT !.updated_at = Some("t1")]]

\* The passphrase in the keyring of an installation that has one, and a
\* passphrase that is not in the keyring (the entry was lost or replaced).
InstalledKey == 1
ForeignKey == 0

\* What secrets/local.age may hold before the run: envelopes of any version
\* under the installation's or another passphrase, damaged bytes, and a
\* decryptable file that is not an envelope.
InitVaultData ==
    {encrypt_with_passphrase(ToJson(EncryptedSecretsFile(v, FullSecrets)), k) :
        v \in 0..MaxVersion, k \in {InstalledKey, ForeignKey}}
    \cup {EncodeSecrets(DefaultSecrets, InstalledKey)}
    \cup {Truncated(EncodeSecrets(FullSecrets, InstalledKey))}
    \cup {encrypt_with_passphrase(GarbageJson, InstalledKey)}

InitVaults == {None} \cup {Some([data |-> d, mode |-> "0600"]) : d \in InitVaultData}
InitConfigs == {None, Some([data |-> JsonFile(FullConfig), mode |-> "0600"])}

InitFiles ==
    /\ keyring \in {None, Some(InstalledKey)}
    /\ nextKey = InstalledKey
    /\ vaultFile \in InitVaults
    /\ configFile \in InitConfigs
    /\ secretsDir = IF vaultFile = None THEN None ELSE Some("0700")
    /\ configDir = (vaultFile /= None \/ configFile /= None)
    /\ tmpFiles = {}

OneProcess == [p \in Procs |-> IF p = "p1" THEN IdleProc ELSE [IdleProc EXCEPT !.pc = "off"]]

\* SecretStore used on its own: one process, any vault file, and an
\* environment that may fail calls.
Init ==
    /\ InitFiles
    /\ configFile = None
    /\ faultsOn = TRUE
    /\ api = IdleCall
    /\ proc = OneProcess
    /\ srv = NoServer
    /\ login = IdleLogin

\* The statements of SecretStore and of load_or_create_passphrase.
VaultStep(p) ==
    \/ KeyringEntryNew(p) \/ KeyringGet(p) \/ KeyringSet(p)
    \/ LoadExists(p) \/ LoadRead(p) \/ LoadDecode(p)
    \/ SaveMkdir(p) \/ SaveDirPerm(p) \/ WriteOpen(p) \/ WriteAll(p) \/ WriteSync(p)
    \/ WriteRename(p) \/ SaveFilePerm(p)

\* The statements of integration.rs around them.
FnStep(p) ==
    \/ FnBegin(p) \/ FnLoadSecrets(p) \/ FnSaveSecrets(p) \/ FnLoadConfig(p)
    \/ FnSaveConfig(p) \/ ConfigWrite(p) \/ ConfigPerm(p) \/ FnEnd(p)

Next == \E p \in Procs : StartLoad(p) \/ StartSave(p) \/ VaultStep(p) \/ Crash(p)

Spec == Init /\ [][Next]_vars

\* The session/integration store: the vaults a store can face (none, a
\* loadable one, one it cannot decrypt), with or without a config file.
StoreVaultData ==
    {EncodeSecrets(FullSecrets, InstalledKey), EncodeSecrets(FullSecrets, ForeignKey)}

InitStore ==
    /\ InitFiles
    /\ vaultFile /= None => Unwrap(vaultFile).data \in StoreVaultData
    /\ faultsOn = TRUE
    /\ api = IdleCall
    /\ proc = OneProcess
    /\ srv = NoServer
    /\ login = IdleLogin

NextStore ==
    \E p \in Procs :
        \/ StartSetIntegration(p) \/ StartClear(p) \/ StartLogout(p) \/ StartSaveSession(p)
        \/ FnStep(p) \/ VaultStep(p) \/ Crash(p)

SpecStore == InitStore /\ [][NextStore]_vars

\* The clearing commands on their own, from stores with all, some or none of
\* the fields: a vault with or without session tokens, a config with or
\* without integration and session.
ClearVaultData ==
    {EncodeSecrets(FullSecrets, InstalledKey),
     EncodeSecrets([FullSecrets EXCEPT !.access_token = None, !.refresh_token = None],
                   InstalledKey),
     EncodeSecrets(FullSecrets, ForeignKey)}
ClearConfigs ==
    {FullConfig, [FullConfig EXCEPT !.session = DefaultSession],
     [FullConfig EXCEPT !.integration = DefaultIntegration]}

InitClear ==
    /\ keyring \in {None, Some(InstalledKey)}
    /\ nextKey = InstalledKey
    /\ vaultFile \in {None} \cup {Some([data |-> d, mode |-> "0600"]) : d \in ClearVaultData}
    /\ configFile \in {None} \cup {Some([data |-> JsonFile(c), mode |-> "0600"]) : c \in ClearConfigs}
    /\ secretsDir = IF vaultFile = None THEN None ELSE Some("0700")
    /\ configDir = (vaultFile /= None \/ configFile /= None)
    /\ tmpFiles = {}
    /\ faultsOn = TRUE
    /\ api = IdleCall
    /\ proc = OneProcess
    /\ srv = NoServer
    /\ login = IdleLogin

NextClear ==
    \E p \in Procs : StartClear(p) \/ StartLogout(p) \/ FnStep(p) \/ VaultStep(p) \/ Crash(p)

SpecClear == InitClear /\ [][NextClear]_vars

\* Two invocations of the CLI at the same time on one config directory, a new
\* installation or one with a vault and its passphrase; no call fails. Each
\* process runs one command.
InitRace ==
    /\ InitFiles
    /\ \/ vaultFile = None /\ keyring = None
       \/ /\ vaultFile /= None /\ keyring = Some(InstalledKey)
          /\ Unwrap(vaultFile).data = EncodeSecrets(FullSecrets, InstalledKey)
    /\ faultsOn = FALSE
    /\ api = IdleCall
    /\ proc = [p \in Procs |-> [IdleProc EXCEPT !.ops = MaxOps - 1]]
    /\ srv = NoServer
    /\ login = IdleLogin

NextRace ==
    \E p \in Procs :
        StartSetIntegration(p) \/ StartSaveSession(p) \/ FnStep(p) \/ VaultStep(p)

SpecRace == InitRace /\ [][NextRace]_vars

\* ------------------------------------------------------------------ callback.rs

\* bind's checks on the parsed redirect URI, in the order of the code:
\* parse error, scheme, host present, host loopback, port present.
BindValidationNoHostCheck(uri) ==
    LET parsed == UrlParse(uri) IN
    /\ parsed.ok
    /\ parsed.scheme = "http"
    /\ IsSome(parsed.host)
    /\ IsSome(parsed.port)

BindValidation(uri) ==
    LET parsed == UrlParse(uri) IN
    /\ parsed.ok
    /\ parsed.scheme = "http"
    /\ IsSome(parsed.host)
    /\ Unwrap(parsed.host) \in {"127.0.0.1", "localhost"}
    /\ IsSome(parsed.port)

\* CallbackServer::bind(redirect_uri, timeout): an invalid-input error when a
\* check fails; otherwise TcpListener::bind on 127.0.0.1:<port> and
\* set_nonblocking, whose errors (address in use, ...) are OAuth errors.
\* The server is given as one that has the URI and what the system will do.
BindOutcome(server) ==
    LET parsed == UrlParse(server.uri) IN
    IF ~BindValidation(server.uri)
    THEN [server EXCEPT !.pc = "failed", !.result = Some(ErrResult(INVALID_INPUT))]
    ELSE IF server.osGrants
    THEN [server EXCEPT !.pc = "bound", !.result = Some(OkResult),
                        !.socketCalls = server.socketCalls + 1,
                        !.listener = parsed.port,
                        !.expected_path = IF parsed.path = "" THEN "/" ELSE parsed.path]
    ELSE [server EXCEPT !.pc = "failed", !.result = Some(ErrResult(OAUTH)),
                        !.socketCalls = server.socketCalls + 1]

Bind ==
    /\ srv.pc = "unbound"
    /\ srv' = BindOutcome(srv)
    /\ UNCHANGED <<files, faultsOn, api, proc, login>>

\* The listener is dropped with the server.
DropServer ==
    /\ srv.pc \in {"bound", "failed"}
    /\ srv' = [srv EXCEPT !.pc = "dropped", !.listener = None]
    /\ UNCHANGED <<files, faultsOn, api, proc, login>>

\* The redirect URIs bind is called with: every combination of these parts,
\* and a text that is no URL.
BindSchemes == {"http", "HTTP", "https", "ftp", "urn"}
BindHosts == {"localhost", "LOCALHOST", "127.0.0.1", "example.com", ""}
BindPorts == {None, Some(80), Some(443), Some(8080), Some(45455)}
BindPaths == {"", "/callback"}
BindUris ==
    {BadUri} \cup
    {Uri(TRUE, sc, h, po, pa) : sc \in BindSchemes, h \in BindHosts, po \in BindPorts,
                                pa \in BindPaths}

\* CallbackServer::bind on its own: any redirect URI, and a system that grants
\* the listener or refuses it.
InitBind ==
    /\ keyring = None /\ nextKey = InstalledKey /\ configDir = FALSE /\ secretsDir = None
    /\ vaultFile = None /\ tmpFiles = {} /\ configFile = None
    /\ faultsOn = FALSE
    /\ api = IdleCall
    /\ proc = [p \in Procs |-> [IdleProc EXCEPT !.pc = "off"]]
    /\ \E uri \in BindUris, grants \in BOOLEAN :
          srv = [NoServer EXCEPT !.uri = uri, !.osGrants = grants]
    /\ login = IdleLogin

NextBind == Bind \/ DropServer

SpecBind == InitBind /\ [][NextBind]_vars

\* ------------------------------------------------------------------ callback.rs: wait_for_code

\* What a client writes to the connection: nothing before it closes, nothing
\* while it keeps the connection open, or a request line with a method and a
\* target, the target being a path and, after a '?', a query of key=value pairs.
Param(key, value) == [key |-> key, value |-> value]
EmptyRequest == [bytes |-> FALSE, open |-> FALSE, method |-> "", path |-> "", query |-> None]
SilentRequest == [EmptyRequest EXCEPT !.open = TRUE]
Request(method, path, query) ==
    [bytes |-> TRUE, open |-> FALSE, method |-> method, path |-> path, query |-> query]

Methods == {"GET", "POST"}
RequestPaths == {"/callback", "/"}
Queries ==
    {None,
     Some(<<Param("code", "abc")>>),
     Some(<<Param("state", "s1")>>),
     Some(<<Param("state", "s1"), Param("code", "abc")>>),
     Some(<<Param("code", "old"), Param("x", "y"), Param("code", "abc"), Param("state", "s2")>>)}
Requests ==
    {EmptyRequest, SilentRequest}
        \cup {Request(m, p, q) : m \in Methods, p \in RequestPaths, q \in Queries}

\* target.split_once('?'): the query, or "" without a '?'.
QueryPairs(request) == IF request.query = None THEN <<>> ELSE Unwrap(request.query)

\* The loop over form_urlencoded::parse: the last value of the key, if any.
QueryValue(pairs, key) ==
    LET at == {i \in DOMAIN pairs : pairs[i].key = key} IN
    IF at = {} THEN None
    ELSE Some(pairs[CHOOSE i \in at : \A j \in at : j <= i].value)

\* The error messages of callback.rs.
TimedOut == "Timed out waiting for OAuth callback. Try login again."
AcceptFailed == "Failed to receive callback request"
ReadFailed == "Failed to read callback request"
Malformed == "Received malformed callback request."
BadMethod == "Callback request used unsupported HTTP method."
PathMismatch == "Callback path mismatch."
NoCode == "OAuth callback did not include code parameter."
NoState == "OAuth callback did not include state parameter."
WriteFailed == "Failed to write callback response"
RejectionMessages == {Malformed, BadMethod, PathMismatch, NoCode, NoState}

Answer(status, message, payload, must_write) ==
    [status |-> status, message |-> message, payload |-> payload, must_write |-> must_write]

\* The checks with the path compared before the method.
ResponseForPathFirst(request, expected_path) ==
    LET pairs == QueryPairs(request)
        code == QueryValue(pairs, "code")
        state == QueryValue(pairs, "state")
    IN
    IF request.path /= expected_path THEN Answer(404, PathMismatch, None, TRUE)
    ELSE IF request.method /= "GET" THEN Answer(405, BadMethod, None, TRUE)
    ELSE IF code = None THEN Answer(400, NoCode, None, FALSE)
    ELSE IF state = None THEN Answer(400, NoState, None, FALSE)
    ELSE Answer(200, "", Some([code |-> Unwrap(code), state |-> Unwrap(state)]), TRUE)

\* parse_callback_request on a request line: the status it writes, the error
\* it returns or the payload, and whether a failed write is an error (the
\* 400 responses are written with `let _ =`).
ResponseFor(request, expected_path) ==
    LET pairs == QueryPairs(request)
        code == QueryValue(pairs, "code")
        state == QueryValue(pairs, "state")
    IN
    IF request.method /= "GET" THEN Answer(405, BadMethod, None, TRUE)
    ELSE IF request.path /= expected_path THEN Answer(404, PathMismatch, None, TRUE)
    ELSE IF code = None THEN Answer(400, NoCode, None, FALSE)
    ELSE IF state = None THEN Answer(400, NoState, None, FALSE)
    ELSE Answer(200, "", Some([code |-> Unwrap(code), state |-> Unwrap(state)]), TRUE)

ServerError(server, message) ==
    [server EXCEPT !.result = Some(ErrResult(OAUTH)), !.message = message]

\* A server that goes on polling after a request it rejected.
ConsumeOnSuccessOnly(server) ==
    IF server.result = Some(OkResult)
    THEN [server EXCEPT !.pc = "returned", !.listener = None, !.backlog = <<>>,
                        !.reset = Len(server.backlog)]
    ELSE [server EXCEPT !.pc = "poll_check"]

\* wait_for_code(self) returns: the server and its listener are dropped, and
\* connections still waiting are reset.
Consume(server) ==
    [server EXCEPT !.pc = "returned", !.listener = None, !.backlog = <<>>,
                   !.reset = Len(server.backlog)]

\* A client connects to the listening port; the connection waits to be accepted.
ClientConnect ==
    /\ srv.pc \in {"bound", "poll_check", "accept", "sleep", "read"}
    /\ IsSome(srv.listener)
    /\ Len(srv.backlog) < MaxBacklog
    /\ \E request \in Requests : srv' = [srv EXCEPT !.backlog = Append(srv.backlog, request)]
    /\ UNCHANGED <<files, faultsOn, api, proc, login>>

\* let deadline = Instant::now() + self.timeout.
WaitStart ==
    /\ srv.pc = "bound"
    /\ srv' = [srv EXCEPT !.pc = "poll_check", !.deadline = Some(srv.now + TimeoutPolls)]
    /\ UNCHANGED <<files, faultsOn, api, proc, login>>

\* Time passes while the process does not run.
Delay ==
    /\ srv.pc \in {"poll_check", "accept"}
    /\ srv.now <= Unwrap(srv.deadline)
    /\ srv' = [srv EXCEPT !.now = srv.now + 1]
    /\ UNCHANGED <<files, faultsOn, api, proc, login>>

\* The end of the loop answered as a rejected request.
OnDeadlineReject(server) ==
    Consume(ServerError([server EXCEPT !.responses = Append(server.responses, 400)], NoCode))

\* After the loop: the timeout error.
OnDeadline(server) == Consume(ServerError(server, TimedOut))

\* while Instant::now() < deadline.
PollCheck ==
    /\ srv.pc = "poll_check"
    /\ srv' = IF srv.now < Unwrap(srv.deadline)
              THEN [srv EXCEPT !.pc = "accept"]
              ELSE OnDeadline(srv)
    /\ UNCHANGED <<files, faultsOn, api, proc, login>>

\* self.listener.accept(): a waiting connection, WouldBlock, or another error.
Accept ==
    /\ srv.pc = "accept"
    /\ \/ /\ srv.backlog /= <<>>
          /\ srv' = [srv EXCEPT !.pc = "read", !.accepted = srv.accepted + 1,
                                !.request = Some(Head(srv.backlog)),
                                !.backlog = Tail(srv.backlog)]
       \/ /\ srv.backlog = <<>>
          /\ srv' = [srv EXCEPT !.pc = "sleep"]
       \/ srv' = Consume(ServerError([srv EXCEPT !.acceptFailed = TRUE], AcceptFailed))
    /\ UNCHANGED <<files, faultsOn, api, proc, login>>

\* thread::sleep(50 ms) after an empty poll.
Sleep ==
    /\ srv.pc = "sleep"
    /\ srv' = [srv EXCEPT !.pc = "poll_check", !.now = srv.now + 1]
    /\ UNCHANGED <<files, faultsOn, api, proc, login>>

\* stream.read(&mut buffer) on the accepted stream, for which no read timeout
\* is set: it returns when bytes or the end of the stream are there, and on a
\* non-blocking stream it returns WouldBlock at once; on a blocking stream
\* with a client that is silent it does not return.
ReadReturns(server) ==
    server.stream_nonblocking \/ ~Unwrap(server.request).open

\* The silent client of the accepted connection writes its request, or closes.
ClientWrite ==
    /\ srv.pc = "read"
    /\ Unwrap(srv.request).open
    /\ \E request \in Requests \ {SilentRequest} : srv' = [srv EXCEPT !.request = Some(request)]
    /\ UNCHANGED <<files, faultsOn, api, proc, login>>

\* Time passes while the read is blocked.
Blocked ==
    /\ srv.pc = "read"
    /\ ~ReadReturns(srv)
    /\ srv.now <= Unwrap(srv.deadline)
    /\ srv' = [srv EXCEPT !.now = srv.now + 1]
    /\ UNCHANGED <<files, faultsOn, api, proc, login>>

\* parse_callback_request on the accepted connection, and the return of
\* wait_for_code with its result. The read and the write of the response may fail.
HandleRequest ==
    LET request == Unwrap(srv.request)
        answer == ResponseFor(request, srv.expected_path)
        sent == [srv EXCEPT !.responses = Append(srv.responses, answer.status)]
    IN
    /\ srv.pc = "read"
    /\ ReadReturns(srv)
    /\ \/ srv' = Consume(ServerError(srv, ReadFailed))
       \/ /\ ~request.bytes /\ ~request.open
          /\ srv' = Consume(ServerError(srv, Malformed))
       \/ /\ request.bytes
          /\ srv' = Consume(IF IsSome(answer.payload)
                            THEN [sent EXCEPT !.result = Some(OkResult),
                                              !.payload = answer.payload]
                            ELSE ServerError(sent, answer.message))
       \/ /\ request.bytes
          /\ srv' = Consume(ServerError(srv, IF answer.must_write THEN WriteFailed
                                             ELSE answer.message))
    /\ UNCHANGED <<files, faultsOn, api, proc, login>>

\* The callback server after bind, for a redirect URI with a path and for one without.
RootUri == Uri(TRUE, "http", "localhost", Some(8080), "")
InitCallback ==
    /\ keyring = None /\ nextKey = InstalledKey /\ configDir = FALSE /\ secretsDir = None
    /\ vaultFile = None /\ tmpFiles = {} /\ configFile = None
    /\ faultsOn = FALSE
    /\ api = IdleCall
    /\ proc = [p \in Procs |-> [IdleProc EXCEPT !.pc = "off"]]
    /\ \E uri \in {GoodUri, RootUri}, inherits \in BOOLEAN :
          srv = [BindOutcome([NoServer EXCEPT !.uri = uri, !.osGrants = TRUE])
                    EXCEPT !.stream_nonblocking = inherits]
    /\ login = IdleLogin

NextCallback ==
    \/ ClientConnect \/ ClientWrite \/ WaitStart \/ Delay \/ Blocked \/ PollCheck
    \/ Accept \/ Sleep \/ HandleRequest

SpecCallback == InitCallback /\ [][NextCallback]_vars

\* The steps of the process that called wait_for_code: it runs as long as it
\* is not blocked in a system call. The clients owe no step.
WaitStep == WaitStart \/ PollCheck \/ Accept \/ Sleep \/ HandleRequest

SpecCallbackLive == SpecCallback /\ WF_vars(WaitStep)

\* ------------------------------------------------------------------ login.rs

\* The process that runs the login.
LoginProc == "p1"

\* A String of the command line, the environment or the config, with what
\* value.trim().is_empty() says of it.
Text(value) == [blank |-> Blank(value), value |-> value]

\* Redirect URI texts of the login: one bind accepts, ones only
\* validate_redirect_uri accepts, a text that is no URL and a blank text.
HttpsUri == Uri(TRUE, "https", "example.com", None, "/callback")
Port80Uri == Uri(TRUE, "http", "127.0.0.1", Some(80), "/callback")
BlankUri == Uri(FALSE, " ", "", None, "")
UriText(uri) == [blank |-> uri = BlankUri, value |-> uri]

\* pick_value with the environment variable before the CLI override.
pick_value_env_first(primary, secondary, tertiary) ==
    LET Usable(o) == IsSome(o) /\ ~Unwrap(o).blank IN
    CASE Usable(secondary) -> secondary
      [] Usable(primary) -> primary
      [] Usable(tertiary) -> tertiary
      [] OTHER -> None

\* pick_value: the first of the three that is present and not blank.
pick_value(primary, secondary, tertiary) ==
    LET Usable(o) == IsSome(o) /\ ~Unwrap(o).blank IN
    CASE Usable(primary) -> primary
      [] Usable(secondary) -> secondary
      [] Usable(tertiary) -> tertiary
      [] OTHER -> None

\* env_value: the variable, unless it is unset or blank.
env_value(variable) ==
    IF IsSome(variable) /\ ~Unwrap(variable).blank THEN variable ELSE None

\* --client-id, --client-secret, --redirect-uri, and the three environment variables.
LoginOverrides ==
    {[client_id |-> c, client_secret |-> cs, redirect_uri |-> u] :
        c \in {None, Some(" ")}, cs \in {None, Some("cs2")},
        u \in {None, Some(HttpsUri), Some(Port80Uri), Some(BadUri)}}
LoginEnvs ==
    {[client_id |-> c, client_secret |-> None, redirect_uri |-> u] :
        c \in {None, Some("id2")}, u \in {None, Some(BlankUri), Some(GoodUri)}}

\* resolve_login_credentials after its two loads: the three picks, each an
\* invalid-input error when nothing is left, then validate_redirect_uri.
ResolvePicks(overrides, env, config, secrets) ==
    LET Str(o) == IF IsSome(o) THEN Some(Text(Unwrap(o))) ELSE None
        Url(o) == IF IsSome(o) THEN Some(UriText(Unwrap(o))) ELSE None
        client_id == pick_value(Str(overrides.client_id), env_value(Str(env.client_id)),
                                Str(config.integration.client_id))
        client_secret == pick_value(Str(overrides.client_secret),
                                    env_value(Str(env.client_secret)),
                                    Str(secrets.client_secret))
        redirect_uri == pick_value(Url(overrides.redirect_uri),
                                   env_value(Url(env.redirect_uri)),
                                   Url(config.integration.redirect_uri))
        Failed(field) ==
            [ok |-> FALSE, missing |-> field, client_id |-> "", client_secret |-> "",
             redirect_uri |-> BadUri]
    IN
    IF client_id = None THEN Failed("client_id")
    ELSE IF client_secret = None THEN Failed("client_secret")
    ELSE IF redirect_uri = None THEN Failed("redirect_uri")
    ELSE IF ~validate_redirect_uri(Unwrap(redirect_uri).value) THEN Failed("")
    ELSE [ok |-> TRUE, missing |-> "", client_id |-> Unwrap(client_id).value,
          client_secret |-> Unwrap(client_secret).value,
          redirect_uri |-> Unwrap(redirect_uri).value]

\* The end of login::run with an error; the callback server, if any, is dropped.
\* A failing step that is tried again.
LoginFailRetry(l, code) == l

\* `?` in run: the login ends with the error.
LoginFail(l, code) == [l EXCEPT !.pc = "done", !.result = Some(ErrResult(code))]
Step(l, name) == [l EXCEPT !.steps = Append(l.steps, name)]
Dropped(server) ==
    IF server.pc = "unbound" THEN server ELSE [server EXCEPT !.pc = "dropped", !.listener = None]

\* `basecamp login`: run calls resolve_login_credentials, which loads the
\* config and the secrets.
LoginStart ==
    /\ login.pc = "idle"
    /\ CanStart(LoginProc)
    /\ login' = Step([login EXCEPT !.pc = "resolve", !.vault0 = vaultFile,
                                   !.config0 = configFile], "resolve")
    /\ proc' = [proc EXCEPT ![LoginProc] =
                   Begin(LoginProc, "login", "resolve_login_credentials", <<>>, DefaultArg,
                         "fn_begin")]
    /\ UNCHANGED <<files, faultsOn, api, srv>>

\* The rest of resolve_login_credentials, and its `?`.
LoginResolved ==
    LET me == proc[LoginProc] IN
    /\ login.pc = "resolve"
    /\ me.pc = "done"
    /\ \E overrides \in LoginOverrides, env \in LoginEnvs :
          LET picks == ResolvePicks(overrides, env, me.config, me.secrets) IN
          login' = IF ~Unwrap(me.result).ok THEN LoginFail(login, Unwrap(me.result).code)
                   ELSE IF ~picks.ok THEN LoginFail(login, INVALID_INPUT)
                   ELSE [login EXCEPT !.pc = "bind", !.redirect_uri = picks.redirect_uri]
    /\ UNCHANGED <<files, faultsOn, api, srv, proc>>

\* CallbackServer::bind(&resolved.redirect_uri, 180 s), and its `?`.
LoginBind ==
    /\ login.pc = "bind"
    /\ \E grants \in BOOLEAN :
          LET server == BindOutcome([NoServer EXCEPT !.uri = login.redirect_uri,
                                                     !.osGrants = grants])
          IN
          IF server.pc = "bound"
          THEN /\ srv' = server
               /\ login' = Step([login EXCEPT !.pc = "authorize"], "bind")
          ELSE /\ srv' = Dropped(server)
               /\ login' = LoginFail(Step(login, "bind"), Unwrap(server.result).code)
    /\ UNCHANGED <<files, faultsOn, api, proc>>

CsrfTokens == {"s1", "s2"}

\* build_client, whose RedirectUrl::new parses the URI once more;
\* build_authorization_url with a new random CSRF token; and the URL printed
\* or handed to the browser (a browser that does not open is only reported).
LoginAuthorize ==
    /\ login.pc = "authorize"
    /\ IF ~UrlParse(login.redirect_uri).ok
       THEN /\ login' = LoginFail(login, INVALID_INPUT)
            /\ srv' = Dropped(srv)
       ELSE /\ \E token \in CsrfTokens :
                  login' = Step([login EXCEPT !.pc = "wait", !.expected_state = Some(token)],
                                "authorize")
            /\ UNCHANGED srv
    /\ UNCHANGED <<files, faultsOn, api, proc>>

\* What a client of the loopback port can put into the callback.
CallbackStates == CsrfTokens \cup {"WRONG"}
Codes == {"code", "forged"}

\* callback_server.wait_for_code(), which consumes the server: the payload of
\* the first request, or an OAuth error (no request in time, a request that
\* is no callback, an I/O error).
LoginWait ==
    /\ login.pc = "wait"
    /\ \/ \E st \in CallbackStates, code \in Codes :
             login' = Step([login EXCEPT !.pc = "check_state",
                                         !.callback = Some([state |-> st, code |-> code])],
                           "wait")
       \/ login' = LoginFail(Step(login, "wait"), OAUTH)
    /\ srv' = Dropped(srv)
    /\ UNCHANGED <<files, faultsOn, api, proc>>

\* The comparison without the state.
StateMatchesAlways(state, expected_state) == TRUE

\* callback.state != expected_state, negated: the strings are equal.
StateMatches(state, expected_state) == state = expected_state

\* The state check of run: a mismatch ends the login with an OAuth error.
LoginCheckState ==
    /\ login.pc = "check_state"
    /\ login' = IF StateMatches(Unwrap(login.callback).state, Unwrap(login.expected_state))
                THEN Step([login EXCEPT !.pc = "exchange"], "check_state")
                ELSE LoginFail(Step(login, "check_state"), OAUTH)
    /\ UNCHANGED <<files, faultsOn, api, srv, proc>>

\* What the token endpoint answers: no usable response, or a token response
\* with an access token and, possibly, a refresh token.
TokenResponse(access_token, refresh_token) ==
    [ok |-> TRUE, access_token |-> access_token, refresh_token |-> refresh_token]
NoTokenResponse == [ok |-> FALSE, access_token |-> "", refresh_token |-> None]
TokenResponses ==
    {NoTokenResponse} \cup {TokenResponse("at2", rt) : rt \in {None, Some("rt")}}

\* A bundle made of a response without refresh token.
TokenBundleLenient(response) ==
    IF ~response.ok THEN [ok |-> FALSE, code |-> OAUTH, bundle |-> None]
    ELSE [ok |-> TRUE, code |-> 0,
          bundle |-> Some([access_token |-> response.access_token,
                           refresh_token |-> IF response.refresh_token = None THEN ""
                                             ELSE Unwrap(response.refresh_token)])]

\* The end of exchange_code and of refresh_access_token: a failed request and
\* a response without refresh_token are OAuth errors; otherwise the bundle.
TokenBundle(response) ==
    IF ~response.ok \/ response.refresh_token = None
    THEN [ok |-> FALSE, code |-> OAUTH, bundle |-> None]
    ELSE [ok |-> TRUE, code |-> 0,
          bundle |-> Some([access_token |-> response.access_token,
                           refresh_token |-> Unwrap(response.refresh_token)])]

exchange_code(response) == TokenBundle(response)
refresh_access_token(response) == TokenBundle(response)

\* oauth::exchange_code(client, callback.code): the request to the token
\* endpoint, and the `?` of run.
LoginExchange ==
    /\ login.pc = "exchange"
    /\ \E response \in TokenResponses :
          LET tokens == exchange_code(response)
              called == Step([login EXCEPT !.exchangeCalls = login.exchangeCalls + 1,
                                           !.response = Some(response)],
                             "exchange")
          IN
          login' = IF tokens.ok
                   THEN [called EXCEPT !.pc = "fetch", !.tokens = tokens.bundle]
                   ELSE LoginFail(called, tokens.code)
    /\ UNCHANGED <<files, faultsOn, api, srv, proc>>

\* Accounts of authorization.json.
Account(id, product) == [id |-> id, product |-> product, name |-> "name", href |-> "href"]
AccountLists ==
    {<<>>, <<Account(1, "bc3")>>, <<Account(3, "bcx"), Account(2, "bc3")>>,
     <<Account(1, "bc3"), Account(2, "bc3")>>}

\* oauth::fetch_authorization: 401 and 403 are OAuth errors, every other
\* failure is a generic one.
LoginFetch ==
    /\ login.pc = "fetch"
    /\ \/ \E accounts \in AccountLists :
             login' = Step([login EXCEPT !.pc = "select", !.accounts = accounts], "fetch")
       \/ \E code \in {OAUTH, GENERIC} : login' = LoginFail(Step(login, "fetch"), code)
    /\ UNCHANGED <<files, faultsOn, api, srv, proc>>

\* The line read from stdin by prompt_for_account: unreadable, no number, or a number.
Selections ==
    {[read |-> FALSE, number |-> None], [read |-> TRUE, number |-> None]}
    \cup {[read |-> TRUE, number |-> Some(n)] : n \in 0..3}

\* The value select_account returns, and whether it read a line to get it.
Selected(account) == [ok |-> TRUE, code |-> 0, account |-> Some(account), prompted |-> FALSE]
NotSelected(code) == [ok |-> FALSE, code |-> code, account |-> None, prompted |-> FALSE]

\* prompt_for_account(accounts) on this line.
prompt_for_account(accounts, line) ==
    [(IF ~line.read THEN NotSelected(GENERIC)
      ELSE IF line.number = None THEN NotSelected(INVALID_INPUT)
      ELSE IF Unwrap(line.number) = 0 \/ Unwrap(line.number) > Len(accounts)
      THEN NotSelected(INVALID_INPUT)
      ELSE Selected(accounts[Unwrap(line.number)]))
     EXCEPT !.prompted = TRUE]

\* select_account that takes the first eligible account when there are several.
select_account_first(accounts, requested_account_id, line) ==
    LET IsBc3(account) == account.product = "bc3"
        bc3_accounts == SelectSeq(accounts, IsBc3)
        Requested(account) == account.id = Unwrap(requested_account_id)
        found == SelectSeq(bc3_accounts, Requested)
    IN
    IF bc3_accounts = <<>> THEN NotSelected(NO_ACCOUNT)
    ELSE IF IsSome(requested_account_id)
    THEN IF found = <<>> THEN NotSelected(NO_ACCOUNT) ELSE Selected(Head(found))
    ELSE Selected(Head(bc3_accounts))

\* select_account(accounts, requested_account_id), with the line a prompt would read.
select_account(accounts, requested_account_id, line) ==
    LET IsBc3(account) == account.product = "bc3"
        bc3_accounts == SelectSeq(accounts, IsBc3)
        Requested(account) == account.id = Unwrap(requested_account_id)
        found == SelectSeq(bc3_accounts, Requested)
    IN
    IF bc3_accounts = <<>> THEN NotSelected(NO_ACCOUNT)
    ELSE IF IsSome(requested_account_id)
    THEN IF found = <<>> THEN NotSelected(NO_ACCOUNT) ELSE Selected(Head(found))
    ELSE IF Len(bc3_accounts) = 1 THEN Selected(Head(bc3_accounts))
    ELSE prompt_for_account(bc3_accounts, line)

\* select_account(authorization.accounts, args.account_id), and its `?`.
LoginSelect ==
    /\ login.pc = "select"
    /\ \E requested \in {None, Some(2), Some(3)}, line \in Selections :
          LET selected == select_account(login.accounts, requested, line)
              done == Step([login EXCEPT
                               !.selection = Some([requested |-> requested,
                                                   prompted |-> selected.prompted,
                                                   line |-> IF selected.prompted THEN Some(line)
                                                            ELSE None])],
                           "select")
          IN
          login' = IF selected.ok
                   THEN [done EXCEPT !.pc = "save", !.account = selected.account]
                   ELSE LoginFail(done, selected.code)
    /\ UNCHANGED <<files, faultsOn, api, srv, proc>>

\* integration::save_session(SessionData of the tokens and the account).
LoginSave ==
    /\ login.pc = "save"
    /\ proc[LoginProc].pc = "done"
    /\ login' = Step([login EXCEPT !.pc = "saving"], "save_session")
    /\ proc' = [proc EXCEPT ![LoginProc] =
                   Begin(LoginProc, "login", "save_session", <<>>,
                         [DefaultArg EXCEPT
                             !.secrets.access_token = Some(Unwrap(login.tokens).access_token),
                             !.secrets.refresh_token = Some(Unwrap(login.tokens).refresh_token),
                             !.session = SessionOf(Unwrap(login.account).id)],
                         "fn_begin")]
    /\ UNCHANGED <<files, faultsOn, api, srv>>

\* The `?` after save_session, and Ok(LoginOutput).
LoginSaved ==
    /\ login.pc = "saving"
    /\ proc[LoginProc].pc = "done"
    /\ login' = [login EXCEPT !.pc = "done", !.result = proc[LoginProc].result]
    /\ UNCHANGED <<files, faultsOn, api, srv, proc>>

\* An exit code that tells failure from success and no more.
exit_code_of_failure(result) == IF result.ok THEN 0 ELSE GENERIC

\* main: the match on the result of run(), 0 for Ok(()) and err.code for Err(err).
exit_code_of(result) == IF result.ok THEN 0 ELSE result.code

\* handle_login after login::run: its `?`, the output printed, then
\* print_secret_store_location()?, whose ensure_config_dir may fail with a
\* generic error; then main's std::process::exit(exit_code).
MainExit ==
    /\ login.pc = "done"
    /\ login.exit_code = None
    /\ \/ /\ login' = [login EXCEPT !.outcome = login.result,
                                     !.exit_code = Some(exit_code_of(Unwrap(login.result)))]
          /\ UNCHANGED proc
       \/ /\ Unwrap(login.result).ok
          /\ CanFault(LoginProc)
          /\ login' = [login EXCEPT !.outcome = Some(ErrResult(GENERIC)),
                                     !.exit_code = Some(exit_code_of(ErrResult(GENERIC)))]
          /\ proc' = [proc EXCEPT ![LoginProc].faults = @ + 1]
    /\ UNCHANGED <<files, faultsOn, api, srv>>

LoginStep ==
    \/ LoginStart \/ LoginResolved \/ LoginBind \/ LoginAuthorize \/ LoginWait
    \/ LoginCheckState \/ LoginExchange \/ LoginFetch \/ LoginSelect \/ LoginSave
    \/ LoginSaved \/ MainExit

\* A login on an installation with or without stored integration and session.
InitLogin ==
    /\ InitFiles
    /\ vaultFile /= None => Unwrap(vaultFile).data \in StoreVaultData
    /\ faultsOn = TRUE
    /\ api = IdleCall
    /\ proc = OneProcess
    /\ srv = NoServer
    /\ login = IdleLogin

NextLogin ==
    \/ LoginStep
    \/ \E p \in Procs : FnStep(p) \/ VaultStep(p) \/ Crash(p)

SpecLogin == InitLogin /\ [][NextLogin]_vars

\* ------------------------------------------------------------------ resolve_login_credentials

\* Each source of each field: absent, blank, or a value of its own.
FieldSources(cli, env, stored) ==
    [cli : {None, Some(" "), Some(cli)}, env : {None, Some(" "), Some(env)},
     stored : {None, Some(" "), Some(stored)}]
UriSources ==
    [cli : {None, Some(BlankUri), Some(HttpsUri), Some(BadUri)},
     env : {None, Some(BlankUri), Some(Port80Uri)},
     stored : {None, Some(BlankUri), Some(GoodUri)}]

\* resolve_login_credentials on a loaded config and loaded secrets.
Resolve ==
    LET in == Unwrap(login.inputs)
        picks == ResolvePicks(
            [client_id |-> in.client_id.cli, client_secret |-> in.client_secret.cli,
             redirect_uri |-> in.redirect_uri.cli],
            [client_id |-> in.client_id.env, client_secret |-> in.client_secret.env,
             redirect_uri |-> in.redirect_uri.env],
            [DefaultConfig EXCEPT !.integration.client_id = in.client_id.stored,
                                  !.integration.redirect_uri = in.redirect_uri.stored],
            [DefaultSecrets EXCEPT !.client_secret = in.client_secret.stored])
    IN
    /\ login.pc = "picks"
    /\ login' = [login EXCEPT
                    !.pc = "resolved",
                    !.result = Some(IF picks.ok THEN OkResult ELSE ErrResult(INVALID_INPUT)),
                    !.missing = picks.missing,
                    !.resolved = IF picks.ok
                                 THEN Some([client_id |-> picks.client_id,
                                            client_secret |-> picks.client_secret,
                                            redirect_uri |-> picks.redirect_uri])
                                 ELSE None]
    /\ UNCHANGED <<files, faultsOn, api, srv, proc>>

InitResolve ==
    /\ keyring = None /\ nextKey = InstalledKey /\ configDir = FALSE /\ secretsDir = None
    /\ vaultFile = None /\ tmpFiles = {} /\ configFile = None
    /\ faultsOn = FALSE
    /\ api = IdleCall
    /\ proc = [p \in Procs |-> [IdleProc EXCEPT !.pc = "off"]]
    /\ srv = NoServer
    /\ \E id \in FieldSources("id-cli", "id-env", "id"),
          secret \in FieldSources("cs-cli", "cs-env", "cs"), uri \in UriSources :
          login = [IdleLogin EXCEPT !.pc = "picks",
                                    !.inputs = Some([client_id |-> id, client_secret |-> secret,
                                                     redirect_uri |-> uri])]

SpecResolve == InitResolve /\ [][Resolve]_vars

\* ------------------------------------------------------------------ basecamp/client.rs

\* AppResult of a call of the API client: Ok, or the AppError with its code
\* and which message it carries.
ApiOk == [ok |-> TRUE, code |-> 0, message |-> "none"]
ApiErr(code, message) == [ok |-> FALSE, code |-> code, message |-> message]

\* The status codes a response may carry (StatusCode holds 100..999).
StatusCodes ==
    {100, 199, 200, 201, 204, 299, 300, 302, 304, 400, 401, 402, 403, 404, 405, 422, 429,
     500, 503, 599}

\* The calls of BasecampClient: the not-found message each passes to
\* ensure_success_status, and whether it decodes the body afterwards.
ApiCalls ==
    {[name |-> "fetch_my_profile", not_found_message |-> None, decodes |-> TRUE],
     [name |-> "list_projects", not_found_message |-> Some("projects endpoint not found"),
      decodes |-> TRUE],
     [name |-> "create_todo", not_found_message |-> Some("target project/list not found"),
      decodes |-> TRUE],
     [name |-> "complete_todo", not_found_message |-> Some("target project/todo not found"),
      decodes |-> FALSE]}

\* oauth_error_from_status: 401 and 403 are OAuth errors, no other status is.
oauth_error_from_status(status_code) ==
    CASE status_code = 401 -> Some(ApiErr(OAUTH, "unauthorized"))
      [] status_code = 403 -> Some(ApiErr(OAUTH, "forbidden"))
      [] OTHER -> None

\* StatusCode::is_success: 200 <= code < 300.
is_success(status) == 200 <= status /\ status < 300

\* A check that takes every 404 for a missing resource, message or not.
ensure_success_status_any_404(status, not_found_message) ==
    IF IsSome(oauth_error_from_status(status)) THEN Unwrap(oauth_error_from_status(status))
    ELSE IF status = 404
    THEN ApiErr(NO_ACCOUNT, IF IsSome(not_found_message) THEN Unwrap(not_found_message)
                            ELSE "not found")
    ELSE IF ~is_success(status) THEN ApiErr(GENERIC, "status")
    ELSE ApiOk

\* BasecampClient::ensure_success_status: the OAuth error of the status if
\* there is one; then no_account for 404 with a not-found message; then the
\* generic status error for every status that is no success; then Ok(()).
ensure_success_status(status, not_found_message) ==
    IF IsSome(oauth_error_from_status(status)) THEN Unwrap(oauth_error_from_status(status))
    ELSE IF status = 404 /\ IsSome(not_found_message)
    THEN ApiErr(NO_ACCOUNT, Unwrap(not_found_message))
    ELSE IF ~is_success(status) THEN ApiErr(GENERIC, "status")
    ELSE ApiOk

\* A call of the client begins: the request is built and sent.
ApiSend ==
    /\ api.pc = "idle"
    /\ \E call \in ApiCalls :
          api' = [api EXCEPT !.pc = "sent", !.call = call.name,
                             !.not_found_message = call.not_found_message]
    /\ UNCHANGED <<files, faultsOn, srv, login, proc>>

\* send().await: a response with some status, or a transport error, which
\* map_err turns into a generic error.
ApiResponse ==
    /\ api.pc = "sent"
    /\ \/ \E status \in StatusCodes : api' = [api EXCEPT !.pc = "response", !.status = status]
       \/ api' = [api EXCEPT !.pc = "done", !.result = Some(ApiErr(GENERIC, "request"))]
    /\ UNCHANGED <<files, faultsOn, srv, login, proc>>

\* self.ensure_success_status(response.status(), ...)?: an error ends the
\* call; after Ok(()) the call decodes the body, or returns if it has none.
ApiCheck ==
    LET checked == ensure_success_status(api.status, api.not_found_message)
        decodes == \E call \in ApiCalls : call.name = api.call /\ call.decodes
    IN
    /\ api.pc = "response"
    /\ api' = IF ~checked.ok
              THEN [api EXCEPT !.pc = "done", !.checked = Some(checked), !.result = Some(checked)]
              ELSE IF decodes THEN [api EXCEPT !.pc = "decode", !.checked = Some(checked)]
              ELSE [api EXCEPT !.pc = "done", !.checked = Some(checked), !.result = Some(ApiOk)]
    /\ UNCHANGED <<files, faultsOn, srv, login, proc>>

\* response.json::<T>().await: the value, or a generic decoding error.
ApiDecode ==
    /\ api.pc = "decode"
    /\ \E result \in {ApiOk, ApiErr(GENERIC, "decode")} :
          api' = [api EXCEPT !.pc = "done", !.result = Some(result)]
    /\ UNCHANGED <<files, faultsOn, srv, login, proc>>

\* One call of the API client; the store and the login are not running.
InitApi ==
    /\ keyring = None /\ nextKey = InstalledKey /\ configDir = FALSE /\ secretsDir = None
    /\ vaultFile = None /\ tmpFiles = {} /\ configFile = None
    /\ faultsOn = FALSE
    /\ api = IdleCall
    /\ proc = [p \in Procs |-> [IdleProc EXCEPT !.pc = "off"]]
    /\ srv = NoServer
    /\ login = IdleLogin

NextApi == ApiSend \/ ApiResponse \/ ApiCheck \/ ApiDecode

SpecApi == InitApi /\ [][NextApi]_vars

\* ------------------------------------------------------------------ claims

Finished(r) == r.pc = "done"
ResultOf(r) == Unwrap(r.result)
SecureStorageError(r) == r.result = Some(ErrResult(SECURE_STORAGE))
VaultBytes(file) == Unwrap(file).data

\* C2: save_session writes the tokens to the vault before it writes the session
\* to config.json, and only after the vault write succeeded: config.json is
\* touched only once save_secrets has returned Ok and the vault file holds the
\* new tokens, and a save_session that ends without a successful vault save
\* ends with an error and config.json as it was.
C2_VaultBeforeConfig ==
    \A p \in Procs :
        LET me == proc[p] IN
        me.fn = "save_session" =>
            /\ ("config" \in me.wrote \/ configFile /= me.config0) =>
                  /\ me.saveOk
                  /\ IsSome(vaultFile)
                  /\ VaultBytes(vaultFile).whole
                  /\ VaultBytes(vaultFile).pt.secrets.access_token = me.arg.secrets.access_token
                  /\ VaultBytes(vaultFile).pt.secrets.refresh_token = me.arg.secrets.refresh_token
            /\ (Finished(me) /\ ~me.saveOk) =>
                  /\ ~ResultOf(me).ok
                  /\ ResultOf(me).code \in {SECURE_STORAGE, GENERIC}
                  /\ configFile = me.config0

\* C2 witness: a save_session whose vault write failed at the rename, with a
\* config.json on disk that it then left alone.
C2_Witness ==
    \E p \in Procs :
        /\ proc[p].fn = "save_session" /\ Finished(proc[p])
        /\ proc[p].failedAt = "wf_rename"
        /\ IsSome(configFile)

\* C3: while write_file_atomically runs, and after a crash or a failure at any
\* of its steps, the vault file is what it was when save started or the
\* complete new ciphertext, never a truncated or mixed one.
C3_AtomicReplace ==
    \A p \in Procs :
        LET me == proc[p] IN
        (me.cmd = "save" /\ me.pc \notin {"idle", "off"}) =>
            \/ /\ vaultFile = None
               /\ me.vault0 = None
            \/ /\ IsSome(vaultFile) /\ IsSome(me.vault0)
               /\ VaultBytes(vaultFile) = VaultBytes(me.vault0)
            \/ /\ IsSome(vaultFile) /\ IsSome(me.passphrase)
               /\ VaultBytes(vaultFile) =
                     encrypt_with_passphrase(
                        ToJson(EncryptedSecretsFile(SECRETS_VERSION, me.arg.secrets)),
                        Unwrap(me.passphrase))

\* C3 witness: a crash after the temporary file was created and before the
\* rename, over an existing vault file.
C3_Witness ==
    \E p \in Procs :
        /\ proc[p].cmd = "save" /\ proc[p].pc = "crashed"
        /\ IsSome(proc[p].tmp) /\ "vault" \notin proc[p].wrote
        /\ IsSome(proc[p].vault0)

\* Whether the bytes `file` held decrypt, under the keyring's passphrase, to the
\* JSON of an envelope.
Opens(file, ring) ==
    /\ IsSome(ring)
    /\ VaultBytes(file).whole
    /\ VaultBytes(file).key = Unwrap(ring)
    /\ VaultBytes(file).pt.kind = "envelope"

\* C4: load fails closed: over a vault file that does not decrypt under the
\* keyring's passphrase (another passphrase, damaged bytes) or does not parse,
\* load returns a secure-storage error; and whatever load returns as Ok over an
\* existing file is the secrets of that file's envelope.
C4_LoadFailsClosed ==
    \A p \in Procs :
        LET me == proc[p] IN
        (me.cmd = "load" /\ Finished(me) /\ IsSome(me.vault0)) =>
            /\ ~Opens(me.vault0, keyring) => SecureStorageError(me)
            /\ ResultOf(me).ok =>
                  /\ Opens(me.vault0, keyring)
                  /\ me.secrets = VaultBytes(me.vault0).pt.secrets

\* C4 witness: a load over a vault encrypted under a passphrase the keyring
\* does not hold, ended with the secure-storage error.
C4_Witness ==
    \E p \in Procs :
        /\ proc[p].cmd = "load" /\ Finished(proc[p]) /\ IsSome(proc[p].vault0)
        /\ proc[p].failedAt = "ld_decode"
        /\ VaultBytes(proc[p].vault0).whole
        /\ Some(VaultBytes(proc[p].vault0).key) /= keyring
        /\ SecureStorageError(proc[p])

\* The steps at which only the environment (disk, keyring backend) makes
\* SecretStore::load fail.
LoadEnvSites == {"ld_read", "kr_new", "kr_get", "kr_set"}

\* C5: vault round trip: once save(v) has returned Ok and the vault file was
\* not replaced since, every load returns exactly v (all fields absent
\* included), whatever was saved or loaded before; it fails only where the
\* disk or the keyring backend refuses the call.
C5_RoundTrip ==
    \A p \in Procs :
        LET me == proc[p] IN
        (me.cmd = "load" /\ Finished(me) /\ IsSome(me.saved)) =>
            /\ ResultOf(me).ok => me.secrets = Unwrap(me.saved)
            /\ ~ResultOf(me).ok => me.failedAt \in LoadEnvSites

\* C5 witness: the all-absent SecretConfig saved and loaded back.
C5_Witness ==
    \E p \in Procs :
        /\ proc[p].cmd = "load" /\ Finished(proc[p]) /\ ResultOf(proc[p]).ok
        /\ proc[p].saved = Some(DefaultSecrets)
        /\ proc[p].secrets = DefaultSecrets
        /\ IsSome(proc[p].vault0)

\* C6: with no vault file, load returns the all-absent SecretConfig without
\* invoking the keystore: no keyring call, the keyring entry as it was, and no
\* file or directory written.
C6_MissingVaultNoKeystore ==
    \A p \in Procs :
        LET me == proc[p] IN
        (me.cmd = "load" /\ me.vault0 = None /\ me.pc \notin {"idle", "off"}) =>
            /\ me.krCalls = 0
            /\ keyring = me.keyring0
            /\ me.wrote = {}
            /\ vaultFile = None
            /\ Finished(me) => (me.result = Some(OkResult) /\ me.secrets = DefaultSecrets)

\* C6 witness: a first-run load (no vault file, no keyring entry) that returned.
C6_Witness ==
    \E p \in Procs :
        /\ proc[p].cmd = "load" /\ Finished(proc[p])
        /\ proc[p].vault0 = None /\ proc[p].keyring0 = None
        /\ proc[p].result = Some(OkResult)

\* C7: over a vault file that decrypts and parses, load rejects every version
\* above SECRETS_VERSION with a secure-storage error and accepts every version
\* up to it, returning the envelope's secrets (it fails then only where the
\* disk or the keyring backend refuses the call).
C7_Versioning ==
    \A p \in Procs :
        LET me == proc[p] IN
        (me.cmd = "load" /\ Finished(me) /\ IsSome(me.vault0) /\ Opens(me.vault0, keyring)) =>
            LET envelope == VaultBytes(me.vault0).pt IN
            /\ envelope.version > SECRETS_VERSION => SecureStorageError(me)
            /\ envelope.version <= SECRETS_VERSION =>
                  \/ ResultOf(me).ok /\ me.secrets = envelope.secrets
                  \/ ~ResultOf(me).ok /\ me.failedAt \in LoadEnvSites

\* C7 witness: an envelope of version 0, below the supported one, loaded.
C7_Witness ==
    \E p \in Procs :
        /\ proc[p].cmd = "load" /\ Finished(proc[p]) /\ IsSome(proc[p].vault0)
        /\ Opens(proc[p].vault0, keyring)
        /\ VaultBytes(proc[p].vault0).pt.version < SECRETS_VERSION
        /\ ResultOf(proc[p]).ok
        /\ proc[p].secrets = FullSecrets

\* C8: a keystore error (Entry::new, a get_password error other than NoEntry, a
\* failed set_password) ends the calling load or save at once with a
\* secure-storage error, and a save has then created no temporary file and left
\* the vault file as it was; the keyring entry is written only when there was
\* none, with the freshly generated passphrase the call goes on with.
C8_KeystoreFatal ==
    \A p \in Procs :
        LET me == proc[p] IN
        /\ me.krError =>
              /\ Finished(me)
              /\ SecureStorageError(me)
              /\ me.cmd = "save" =>
                    (vaultFile = me.vault0 /\ me.tmp = None /\ me.wrote \subseteq {"secrets_dir"})
        /\ (me.pc \notin {"idle", "off"} /\ IsSome(me.keyring0)) => keyring = me.keyring0
        /\ "keyring" \in me.wrote =>
              /\ me.keyring0 = None
              /\ keyring = Some(nextKey)
              /\ me.passphrase = keyring

\* C8 witness: a save on a fresh installation whose generated passphrase could
\* not be persisted.
C8_Witness ==
    \E p \in Procs :
        /\ proc[p].cmd = "save" /\ Finished(proc[p])
        /\ proc[p].krError /\ proc[p].failedAt = "kr_set"
        /\ proc[p].keyring0 = None /\ keyring = None
        /\ SecureStorageError(proc[p])

\* The conditions on the redirect URI as written: scheme http, host localhost
\* or 127.0.0.1 (both compared as URLs compare them, without regard to case),
\* and a port in the text.
MeetsBindConditions(uri) ==
    /\ uri.syntax
    /\ Lower(uri.scheme) = "http"
    /\ Lower(uri.host) \in {"localhost", "127.0.0.1"}
    /\ IsSome(uri.port)

\* C9: for every redirect URI that violates one of the conditions, texts that
\* are no URL included, bind fails with an invalid-input error and has not
\* called TcpListener::bind: there is no listener.
C9_InvalidUriNoSocket ==
    (srv.pc /= "unbound" /\ ~MeetsBindConditions(srv.uri)) =>
        /\ srv.result = Some(ErrResult(INVALID_INPUT))
        /\ srv.socketCalls = 0
        /\ srv.listener = None

\* C9 witness: bind refused an http URI with a port whose host is not loopback.
C9_Witness ==
    /\ srv.pc = "failed"
    /\ srv.uri.syntax /\ srv.uri.scheme = "http" /\ srv.uri.host = "example.com"
    /\ IsSome(srv.uri.port) /\ srv.osGrants
    /\ srv.result = Some(ErrResult(INVALID_INPUT))

\* C10: for every redirect URI with scheme http, host localhost or 127.0.0.1
\* and an explicit port, bind succeeds (where the system grants the listener)
\* and the server listens on 127.0.0.1:<port>.
C10_ValidUriBinds ==
    (srv.pc \in {"bound", "failed"} /\ MeetsBindConditions(srv.uri) /\ srv.osGrants) =>
        /\ srv.result = Some(OkResult)
        /\ srv.listener = srv.uri.port

\* C1: whenever the callback's state differs from the CSRF token generated
\* for this login, the login stops at the state check: no call of
\* exchange_code is made, no tokens are obtained, and the login ends with an
\* OAuth error.
C1_StateMismatchNoExchange ==
    (IsSome(login.callback) /\ Unwrap(login.callback).state /= Unwrap(login.expected_state)) =>
        /\ login.pc \in {"check_state", "done"}
        /\ login.exchangeCalls = 0
        /\ login.tokens = None
        /\ login.pc = "done" => login.result = Some(ErrResult(OAUTH))

\* C1 witness: a login that ended on a callback carrying the other CSRF token.
C1_Witness ==
    /\ login.pc = "done"
    /\ IsSome(login.callback)
    /\ Unwrap(login.callback).state \in CsrfTokens
    /\ Unwrap(login.callback).state /= Unwrap(login.expected_state)
    /\ login.result = Some(ErrResult(OAUTH))
    /\ login.exchangeCalls = 0

\* C11: the callback server serves one request: it accepts at most one
\* connection, after accepting one it only handles that request and returns,
\* whether the request is accepted or rejected, and once wait_for_code has
\* returned there is no listener and no connection waiting on it.
C11_OneRequest ==
    /\ srv.accepted <= 1
    /\ srv.accepted = 1 => srv.pc \in {"read", "returned"}
    /\ srv.pc = "returned" =>
          /\ srv.listener = None
          /\ srv.backlog = <<>>
          /\ IsSome(srv.result)

\* C11 witness: the server returned with an error on the first request while
\* a second connection was waiting.
C11_Witness ==
    /\ srv.pc = "returned"
    /\ srv.accepted = 1
    /\ srv.message \in RejectionMessages
    /\ srv.reset = 1
    /\ srv.listener = None

\* The status the callback contract gives a request line, stated on the
\* request: method, then path, then the two parameters.
HasParam(request, key) == \E i \in DOMAIN QueryPairs(request) : QueryPairs(request)[i].key = key
ParamValues(request, key) ==
    {QueryPairs(request)[i].value : i \in {j \in DOMAIN QueryPairs(request) :
                                              QueryPairs(request)[j].key = key}}
ContractStatus(request, expected_path) ==
    CASE request.method /= "GET" -> 405
      [] request.method = "GET" /\ request.path /= expected_path -> 404
      [] request.method = "GET" /\ request.path = expected_path
            /\ ~(HasParam(request, "code") /\ HasParam(request, "state")) -> 400
      [] OTHER -> 200

\* C12: at most one response is sent and its status is 405, 404, 400 or 200;
\* for a request line that was read and answered, the status is 405 for a
\* method other than GET, else 404 for a path other than the callback path,
\* else 400 when code or state is missing, else 200; every status but 200
\* comes with an OAuth error and no payload, and 200 with the payload whose
\* code and state are values of the query.
C12_ResponseByRequest ==
    /\ Len(srv.responses) <= 1
    /\ \A i \in DOMAIN srv.responses : srv.responses[i] \in {405, 404, 400, 200}
    /\ (srv.pc = "returned" /\ srv.responses /= <<>>) =>
          LET request == Unwrap(srv.request)
              status == ContractStatus(request, srv.expected_path)
          IN
          /\ request.bytes
          /\ srv.responses = <<status>>
          /\ status /= 200 =>
                /\ srv.result = Some(ErrResult(OAUTH))
                /\ srv.payload = None
          /\ status = 200 =>
                /\ srv.result = Some(OkResult)
                /\ IsSome(srv.payload)
                /\ Unwrap(srv.payload).code \in ParamValues(request, "code")
                /\ Unwrap(srv.payload).state \in ParamValues(request, "state")
    /\ (srv.pc = "returned" /\ srv.result = Some(OkResult)) => srv.responses = <<200>>

\* C12 witness: a GET for the callback path with a code and no state was
\* answered with 400.
C12_Witness ==
    /\ srv.pc = "returned"
    /\ srv.responses = <<400>>
    /\ Unwrap(srv.request).method = "GET"
    /\ Unwrap(srv.request).path = srv.expected_path
    /\ HasParam(Unwrap(srv.request), "code")
    /\ ~HasParam(Unwrap(srv.request), "state")
    /\ srv.message = NoState

\* C13: when wait_for_code returns without having accepted a connection and
\* without an accept() failure, the deadline has passed and the result is
\* the timeout error, with no HTTP response sent and no payload; the timeout
\* error is returned in no other case and its message is that of no rejection.
C13_Timeout ==
    /\ (srv.pc = "returned" /\ srv.accepted = 0 /\ ~srv.acceptFailed) =>
          /\ srv.result = Some(ErrResult(OAUTH))
          /\ srv.message = TimedOut
          /\ srv.responses = <<>>
          /\ srv.payload = None
          /\ srv.now >= Unwrap(srv.deadline)
    /\ srv.message = TimedOut => (srv.accepted = 0 /\ srv.now >= Unwrap(srv.deadline))
    /\ TimedOut \notin RejectionMessages \cup {AcceptFailed, ReadFailed, WriteFailed}

\* C13 witness: the deadline passed with no connection accepted.
C13_Witness ==
    /\ srv.pc = "returned"
    /\ srv.accepted = 0
    /\ srv.now >= Unwrap(srv.deadline)
    /\ srv.message = TimedOut
    /\ srv.responses = <<>>

\* The first non-blank value among CLI override, environment variable and
\* stored value, as a set: empty when all three are absent or blank.
NonBlank(o, blank) == o /= None /\ Unwrap(o) /= blank
Preferred(sources, blank) ==
    IF NonBlank(sources.cli, blank) THEN {Unwrap(sources.cli)}
    ELSE IF NonBlank(sources.env, blank) THEN {Unwrap(sources.env)}
    ELSE IF NonBlank(sources.stored, blank) THEN {Unwrap(sources.stored)}
    ELSE {}

\* C14: each of client_id, client_secret and redirect_uri resolves,
\* independently of the others, to the first non-blank value among CLI
\* override, environment variable and stored value; when a field has none,
\* the result is an invalid-input error for a field that has none, whatever
\* the other fields hold.
C14_ResolvePriority ==
    login.pc = "resolved" =>
        LET in == Unwrap(login.inputs)
            id == Preferred(in.client_id, " ")
            secret == Preferred(in.client_secret, " ")
            uri == Preferred(in.redirect_uri, BlankUri)
        IN
        /\ (id = {} \/ secret = {} \/ uri = {}) =>
              /\ login.result = Some(ErrResult(INVALID_INPUT))
              /\ login.missing \in {"client_id", "client_secret", "redirect_uri"}
              /\ login.missing = "client_id" => id = {}
              /\ login.missing = "client_secret" => secret = {}
              /\ login.missing = "redirect_uri" => uri = {}
        /\ login.result = Some(OkResult) =>
              /\ id = {Unwrap(login.resolved).client_id}
              /\ secret = {Unwrap(login.resolved).client_secret}
              /\ uri = {Unwrap(login.resolved).redirect_uri}
        /\ (id /= {} /\ secret /= {} /\ uri /= {} /\ uri /= {BadUri}) =>
              login.result = Some(OkResult)

\* C14 witness: the client secret is stored but the client id is blank on
\* the command line and absent elsewhere: the error names client_id.
C14_Witness ==
    /\ login.pc = "resolved"
    /\ Unwrap(login.inputs).client_secret.stored = Some("cs")
    /\ Unwrap(login.inputs).client_id.cli = Some(" ")
    /\ Unwrap(login.inputs).client_id.env = None
    /\ Unwrap(login.inputs).client_id.stored = None
    /\ login.result = Some(ErrResult(INVALID_INPUT))
    /\ login.missing = "client_id"

\* The eligible accounts of a list, and the k-th of them in the order of the list.
Eligible(accounts) == {i \in DOMAIN accounts : accounts[i].product = "bc3"}
EligibleAt(accounts, k) ==
    {accounts[i] : i \in {j \in Eligible(accounts) :
                            Cardinality({h \in Eligible(accounts) : h <= j}) = k}}

\* C15: right after select_account: an account it returns has product bc3;
\* with no eligible account the result is a no-account error; with a
\* requested id it is the eligible account with that id, and a no-account
\* error when there is none, without a prompt; with no requested id and one
\* eligible account it is that account, without a prompt; with no requested
\* id and several eligible accounts a line is read and the account is the one
\* the line chooses, or the login fails.
C15_SelectAccount ==
    (login.steps /= <<>> /\ login.steps[Len(login.steps)] = "select") =>
        LET accounts == login.accounts
            sel == Unwrap(login.selection)
            ok == login.pc = "save"
            eligible == {accounts[i] : i \in Eligible(accounts)}
            wanted == {a \in eligible : sel.requested = Some(a.id)}
        IN
        /\ login.pc \in {"save", "done"}
        /\ ok => Unwrap(login.account) \in eligible
        /\ ~ok => login.account = None
        /\ eligible = {} => login.result = Some(ErrResult(NO_ACCOUNT))
        /\ (eligible /= {} /\ sel.requested /= None) =>
              /\ ~sel.prompted
              /\ IF wanted = {} THEN login.result = Some(ErrResult(NO_ACCOUNT))
                 ELSE ok /\ Unwrap(login.account) \in wanted
        /\ (sel.requested = None /\ Cardinality(eligible) = 1) =>
              ok /\ ~sel.prompted
        /\ (sel.requested = None /\ Cardinality(eligible) > 1) =>
              /\ sel.prompted
              /\ ok => /\ IsSome(Unwrap(sel.line).number)
                       /\ {Unwrap(login.account)}
                             = EligibleAt(accounts, Unwrap(Unwrap(sel.line).number))
              /\ ~ok => login.result \in {Some(ErrResult(GENERIC)), Some(ErrResult(INVALID_INPUT))}

\* C15 witness: two eligible accounts, no requested id, and the second chosen
\* at the prompt.
C15_Witness ==
    /\ login.pc = "save"
    /\ Cardinality(Eligible(login.accounts)) = 2
    /\ Unwrap(login.selection).requested = None
    /\ Unwrap(login.selection).prompted
    /\ Unwrap(login.selection).line = Some([read |-> TRUE, number |-> Some(2)])
    /\ Unwrap(login.account).id = 2

\* The access token the vault file holds, if it is an envelope.
StoredAccessToken == IF vaultFile = None THEN None ELSE VaultBytes(vaultFile).pt.secrets.access_token

\* C16: a token response without refresh token makes exchange_code and
\* refresh_access_token return an OAuth error and no bundle; a login that got
\* such a response ends with the OAuth error, holds no tokens, never calls
\* save_session, and the vault does not hold the response's access token.
C16_NoRefreshTokenFails ==
    /\ \A response \in TokenResponses :
          (response.ok /\ response.refresh_token = None) =>
              /\ exchange_code(response) = [ok |-> FALSE, code |-> OAUTH, bundle |-> None]
              /\ refresh_access_token(response) = [ok |-> FALSE, code |-> OAUTH, bundle |-> None]
    /\ (IsSome(login.response) /\ Unwrap(login.response).ok
          /\ Unwrap(login.response).refresh_token = None) =>
          /\ login.pc = "done"
          /\ login.result = Some(ErrResult(OAUTH))
          /\ login.tokens = None
          /\ \A i \in DOMAIN login.steps : login.steps[i] /= "save_session"
          /\ StoredAccessToken /= Some(Unwrap(login.response).access_token)

\* C16 witness: a login ended on a token response with an access token and
\* no refresh token.
C16_Witness ==
    /\ login.pc = "done"
    /\ login.exchangeCalls = 1
    /\ login.response = Some(TokenResponse("at2", None))
    /\ login.result = Some(ErrResult(OAUTH))

\* The stored fields: the secrets of the vault and the config of config.json,
\* a missing file holding none.
StoredFields(vault, config) ==
    [secrets |-> IF vault = None THEN DefaultSecrets ELSE VaultBytes(vault).pt.secrets,
     config |-> read_json_file(config).value]
ClearCommands ==
    {"clear_integration_only", "clear_session", "clear_integration_and_session", "logout",
     "logout --forget-client"}

\* C17: a clearing command that returns Ok right after the same command
\* returned Ok leaves the stored fields as it found them (twice is as once);
\* and a clearing command fails only if a system call failed or the store it
\* found cannot be read: on a never-configured store and on a store whose
\* fields are already absent it returns Ok.
C17_ClearIdempotent ==
    \A p \in Procs :
        LET me == proc[p] IN
        (Finished(me) /\ me.cmd \in ClearCommands) =>
            /\ (ResultOf(me).ok /\ me.prev = me.cmd) =>
                  StoredFields(vaultFile, configFile) = StoredFields(me.vault0, me.config0)
            /\ (me.faults = 0 /\ (me.vault0 = None \/ Opens(me.vault0, me.keyring0))) =>
                  ResultOf(me).ok

\* C17 witness: clear_integration_and_session returned Ok a second time, on
\* the store the first one left.
C17_Witness ==
    LET me == proc["p1"] IN
    /\ Finished(me)
    /\ me.cmd = "clear_integration_and_session"
    /\ me.prev = "clear_integration_and_session"
    /\ ResultOf(me).ok
    /\ me.ops = 2
    /\ StoredFields(vaultFile, configFile) = [secrets |-> DefaultSecrets, config |-> DefaultConfig]

\* The step on which process p returns from SecretStore::save with Ok(()).
SaveReturnsOk(p) == proc[p].pc = "sv_fileperm" /\ proc'[p].saveOk /\ ~proc[p].saveOk

\* The step on which process p returns from save_config with Ok(()).
SaveConfigReturnsOk(p) ==
    /\ proc[p].pc = "sc_perm"
    /\ proc'[p].pc /= "sc_perm"
    /\ proc'[p].failedAt = "none"
    /\ proc'[p].pc /= "crashed"

\* C18: when SecretStore::save returns Ok the vault file exists with mode 0600
\* and the secrets directory has mode 0700, and when save_config returns Ok
\* config.json exists with mode 0600.
C18_RestrictivePermissions ==
    [][\A p \in Procs :
          /\ SaveReturnsOk(p) =>
                /\ IsSome(vaultFile') /\ Unwrap(vaultFile').mode = "0600"
                /\ secretsDir' = Some("0700")
          /\ SaveConfigReturnsOk(p) =>
                IsSome(configFile') /\ Unwrap(configFile').mode = "0600"]_vars

\* C18 witness: a command that found neither file nor directory has created
\* the vault file, the secrets directory and config.json and returned Ok, and
\* all three carry the restrictive modes.
C18_Witness ==
    \E p \in Procs :
        /\ Finished(proc[p]) /\ ResultOf(proc[p]) = OkResult
        /\ proc[p].vault0 = None /\ proc[p].config0 = None
        /\ {"vault", "config", "secrets_dir"} \subseteq proc[p].wrote
        /\ IsSome(vaultFile) /\ Unwrap(vaultFile).mode = "0600"
        /\ IsSome(configFile) /\ Unwrap(configFile).mode = "0600"
        /\ secretsDir = Some("0700")

\* The error kind that the code constructs at each failing site of the store:
\* AppError::generic around the config file and its directory,
\* AppError::invalid_input for a rejected argument, AppError::secure_storage
\* in SecretStore and the keyring.
SiteKind(site) ==
    IF site \in {"fn_load_config", "fn_save_config", "fn_load_secrets", "fn_save_secrets",
                 "sc_write", "sc_perm"}
    THEN "generic"
    ELSE IF site = "fn_begin" THEN "invalid_input"
    ELSE "secure_storage"

\* The exit code that the specification gives to each error kind.
KindCode(kind) ==
    CASE kind = "generic" -> 1
      [] kind = "invalid_input" -> 2
      [] kind = "oauth" -> 3
      [] kind = "no_account" -> 4
      [] kind = "secure_storage" -> 5

\* C19: a run of `login` that reaches std::process::exit exits with 0 exactly
\* when handle_login returned Ok, and otherwise with the code of the error
\* kind, one of 1..5; the five kinds have the five distinct codes 1, 2, 3, 4,
\* 5; an error of login::run reaches main with its code, and an error made in
\* the store reaches main with the code of the kind made at the failing site.
C19_ExitCode ==
    /\ <<GENERIC, INVALID_INPUT, OAUTH, NO_ACCOUNT, SECURE_STORAGE>> = <<1, 2, 3, 4, 5>>
    /\ login.exit_code /= None =>
          LET outcome == Unwrap(login.outcome)
              run == Unwrap(login.result)
              exit == Unwrap(login.exit_code)
              store == proc[LoginProc]
          IN
          /\ outcome.ok <=> exit = 0
          /\ ~outcome.ok => exit \in 1..5
          /\ ~run.ok => exit = run.code
          /\ (~run.ok /\ store.failedAt /= "none") => exit = KindCode(SiteKind(store.failedAt))
          /\ (~run.ok /\ login.steps /= <<>>
                /\ login.steps[Len(login.steps)] \in {"wait", "check_state"}) =>
                exit = KindCode("oauth")

\* C19 witness: save_session failed inside SecretStore::save, at the very end
\* of a login, and the process has exited with the secure-storage code 5.
C19_Witness ==
    /\ login.exit_code /= None
    /\ login.steps /= <<>> /\ login.steps[Len(login.steps)] = "save_session"
    /\ proc[LoginProc].failedAt \in {"sv_mkdir", "sv_dirperm", "wf_open", "wf_rename", "sv_fileperm"}
    /\ login.exit_code = Some(5)

\* The outcome that the specification gives to a response status, by the
\* cases in their order: the error code and message, or success.
StatusOutcome(status, not_found_message) ==
    IF status = 401 THEN ApiErr(3, "unauthorized")
    ELSE IF status = 403 THEN ApiErr(3, "forbidden")
    ELSE IF status = 404 /\ not_found_message /= None THEN ApiErr(4, Unwrap(not_found_message))
    ELSE IF status \notin 200..299 THEN ApiErr(1, "status")
    ELSE ApiOk

\* C20: the status check of the API client gives the OAuth error for 401 and
\* for 403 (re-auth required, permission denied), the no-account error for
\* 404 when the call has a not-found message, the generic status error for
\* every other status outside 200..299 (404 without a message included), and
\* success for 200..299; an error of the check is the result of the call.
C20_StatusOutcome ==
    api.checked /= None =>
        /\ Unwrap(api.checked) = StatusOutcome(api.status, api.not_found_message)
        /\ ~Unwrap(api.checked).ok => api.pc = "done" /\ api.result = api.checked
        /\ (api.pc = "done" /\ Unwrap(api.result).ok) => api.status \in 200..299

\* C20 witness: fetch_my_profile, the call without a not-found message, got
\* 404 and ended with the generic status error.
C20_Witness ==
    /\ api.pc = "done" /\ api.call = "fetch_my_profile"
    /\ api.status = 404 /\ api.not_found_message = None
    /\ api.result = Some(ApiErr(GENERIC, "status"))

\* wait_for_code has returned in one of its outcomes: the payload, the
\* timeout error, or the error of a rejected or failed request.
WaitReturned ==
    /\ srv.pc = "returned"
    /\ \/ srv.result = Some(OkResult) /\ IsSome(srv.payload)
       \/ srv.result = Some(ErrResult(OAUTH)) /\ srv.message = TimedOut
       \/ srv.result = Some(ErrResult(OAUTH)) /\ srv.message /= TimedOut

\* C21: every call of wait_for_code eventually returns, completed, timed out
\* or rejected, whatever the clients do, a client that connects and sends
\* nothing included.
C21_WaitReturns == <>WaitReturned

\* The step on which write_file_atomically of process p fails after it has
\* created its temporary file: in write_all, in sync_all or in rename.
WriteFailsAfterCreate(p) ==
    /\ proc[p].pc \in {"wf_write", "wf_sync", "wf_rename"}
    /\ proc'[p].pc = "done"
    /\ proc'[p].failedAt \in {"wf_write", "wf_sync", "wf_rename"}

\* C22: when write_file_atomically fails after the temporary file has been
\* created, the temporary file is gone on return and the destination file is
\* as it was.
C22_FailedWriteCleansUp ==
    [][\A p \in Procs :
          WriteFailsAfterCreate(p) =>
              /\ Unwrap(proc[p].tmp) \notin tmpFiles'
              /\ vaultFile' = vaultFile]_vars

\* C23: every content of config.json that a concurrent reader or a crash can
\* observe is the complete JSON of a config, the previous one or the new one,
\* never an empty or partially written file.
C23_ConfigWriteConsistent ==
    IsSome(configFile) => Unwrap(configFile).data.kind = "json"

\* Process p has created its temporary file and not yet renamed it.
WritesTmp(p) == proc[p].pc \in {"wf_write", "wf_sync", "wf_rename"}

\* The step on which the rename of process p replaces the vault file.
Renames(p) == proc[p].pc = "wf_rename" /\ proc'[p].pc = "sv_fileperm"

\* C24: of two processes that run load-modify-save at the same time, no two
\* write through the same temporary file; the vault file always holds one
\* writer's complete envelope; its content changes only by a rename, to the
\* envelope of the process that renames, so that the last rename decides the
\* final content.
C24_ConcurrentWriters ==
    /\ [](\A p, q \in Procs : (p /= q /\ WritesTmp(p) /\ WritesTmp(q)) => proc[p].tmp /= proc[q].tmp)
    /\ [](IsSome(vaultFile) =>
            /\ VaultBytes(vaultFile).whole
            /\ VaultBytes(vaultFile).pt.kind = "envelope")
    /\ [][/\ \A p \in Procs :
               Renames(p) =>
                   /\ IsSome(vaultFile')
                   /\ VaultBytes(vaultFile') =
                         EncodeSecrets(proc[p].secrets, Unwrap(proc[p].passphrase))
          /\ (/\ vaultFile' /= vaultFile
              /\ \/ vaultFile' = None
                 \/ vaultFile = None
                 \/ VaultBytes(vaultFile') /= VaultBytes(vaultFile)) =>
                \E p \in Procs : Renames(p)]_vars

\* C24 witness: set_integration and save_session ran at the same time and
\* both returned Ok; the vault holds the tokens of save_session and not the
\* client secret of set_integration, whose rename came first.
C24_Witness ==
    \E p, q \in Procs :
        /\ p /= q
        /\ Finished(proc[p]) /\ ResultOf(proc[p]) = OkResult /\ proc[p].cmd = "set_integration"
        /\ Finished(proc[q]) /\ ResultOf(proc[q]) = OkResult /\ proc[q].cmd = "save_session"
        /\ IsSome(vaultFile)
        /\ VaultBytes(vaultFile).pt.secrets.access_token = proc[q].arg.secrets.access_token
        /\ VaultBytes(vaultFile).pt.secrets.client_secret /= proc[p].arg.secrets.client_secret

\* C25: a passphrase stored in the keyring is never replaced, also when two
\* processes make their first vault access at the same time, and the vault
\* file is decryptable with the passphrase that the keyring holds.
C25_PassphraseOnce ==
    /\ [][IsSome(keyring) => keyring' = keyring]_vars
    /\ []((IsSome(vaultFile) /\ IsSome(keyring)) =>
            decrypt_with_passphrase(VaultBytes(vaultFile), Unwrap(keyring)).ok)

\* The steps of login::run in the order of its statements.
LoginOrder ==
    <<"resolve", "bind", "authorize", "wait", "check_state", "exchange", "fetch", "select",
      "save_session">>

\* The steps made so far are the first steps of run, each once and in order.
StepsInOrder ==
    /\ Len(login.steps) <= Len(LoginOrder)
    /\ \A i \in DOMAIN login.steps : login.steps[i] = LoginOrder[i]

\* The stored tokens and session metadata.
StoredSession(vault, config) ==
    [access_token |-> StoredFields(vault, config).secrets.access_token,
     refresh_token |-> StoredFields(vault, config).secrets.refresh_token,
     session |-> StoredFields(vault, config).config.session]

LoginFailed == login.pc = "done" /\ ~Unwrap(login.result).ok
ReachedSave == \E i \in DOMAIN login.steps : login.steps[i] = "save_session"

\* C26: a login makes its steps at most once each and in the order of run,
\* the first failing step ends it, save_session runs only after every earlier
\* step succeeded, and a failed login leaves the stored tokens and session
\* metadata as they were.
C26_LoginOrder ==
    /\ StepsInOrder
    /\ ReachedSave =>
          /\ IsSome(login.tokens) /\ IsSome(login.account)
          /\ Unwrap(login.callback).state = Unwrap(login.expected_state)
    /\ LoginFailed =>
          StoredSession(vaultFile, configFile) = StoredSession(login.vault0, login.config0)

\* C26 amended: as C26, with the store left as it was by a login that failed
\* before save_session; a login that fails inside save_session may have
\* written the vault already.
C26_LoginOrderBeforeSave ==
    /\ StepsInOrder
    /\ ReachedSave =>
          /\ IsSome(login.tokens) /\ IsSome(login.account)
          /\ Unwrap(login.callback).state = Unwrap(login.expected_state)
    /\ (LoginFailed /\ ~ReachedSave) =>
          /\ vaultFile = login.vault0
          /\ configFile = login.config0

\* C26 witness: a login on a store with a session failed at fetch, after the
\* exchange gave it tokens, and ended there.
C26_Witness ==
    /\ LoginFailed
    /\ login.steps = SubSeq(LoginOrder, 1, 7)
    /\ IsSome(login.tokens)
    /\ IsSome(login.vault0) /\ IsSome(login.config0)

\* The plaintext config shows a session (account_id present) while the vault
\* holds no access token.
SessionWithoutToken(vault, config) ==
    /\ IsSome(StoredFields(vault, config).config.session.account_id)
    /\ StoredFields(vault, config).secrets.access_token = None

StoreCommands ==
    ClearCommands \cup {"set_integration", "save_session"}

\* C27: a store command that ended, by returning Ok, by returning an error or
\* by being interrupted, on a store whose config showed no session without an
\* access token in the vault, leaves a store whose config shows no session
\* without an access token in the vault.
C27_NoSessionWithoutToken ==
    \A p \in Procs :
        LET me == proc[p] IN
        (/\ me.cmd \in StoreCommands
         /\ me.pc \in {"done", "crashed"}
         /\ ~SessionWithoutToken(me.vault0, me.config0)) =>
            ~SessionWithoutToken(vaultFile, configFile)

\* Whether the process is inside the load_secrets call of its function: the
\* function's save_secrets is still ahead of it.
LoadingSecrets(r) == \E i \in DOMAIN r.stack : r.stack[i] = "fn_save_secrets"

\* The function a command calls first.
FirstFunction(cmd) ==
    CASE cmd = "clear_integration_and_session" -> "clear_integration_only"
      [] cmd \in {"logout", "logout --forget-client"} -> "clear_session"
      [] OTHER -> cmd

ValidIntegration(arg) ==
    /\ validate_non_empty(arg.client_id)
    /\ validate_non_empty(Unwrap(arg.secrets.client_secret))
    /\ validate_redirect_uri(arg.redirect_uri)

SessionCommands == {"save_session", "clear_session", "logout"}
IntegrationCommands == {"set_integration", "clear_integration_only"}

\* config.json holds a whole document or does not exist.
ConfigReadable == configFile = None \/ Unwrap(configFile).data.kind = "json"

MaxPerPage == 2
MaxPages == 3

\* The recordings the server sends for a page: `count` of them, of its own
\* choosing (it may send more than per_page), each known by page and position.
Recordings(page, count) == [i \in 1..count |-> <<page, i>>]

\* The errors get_json ends with: a transport error, the error of
\* ensure_success_status for the response's status, a decoding error.
SearchErrors ==
    {ApiErr(GENERIC, "request"), ApiErr(GENERIC, "decode")}
    \cup ({ensure_success_status(status, Some("search not found")) : status \in StatusCodes}
            \ {ApiOk})

\* The break condition of the loop with the page bound off by one.
LastPageOnePast(page_count, per_page, page, max_pages) ==
    page_count < per_page \/ page > max_pages

\* `if page_count < per_page as usize || page >= max_pages { break; }`
LastPage(page_count, per_page, page, max_pages) ==
    page_count < per_page \/ page >= max_pages

\* search_todos(query, scope, per_page, max_pages) as it is called.
\* (requests: the pages asked for, in order; fetched: what each answered
\* request returned)
SearchCall(per_page, max_pages) ==
    [pc |-> "search_begin", call |-> "search_todos", per_page |-> per_page,
     max_pages |-> max_pages, page |-> 0, matches |-> <<>>, recordings |-> <<>>,
     requests |-> <<>>, fetched |-> <<>>, result |-> None, returned |-> None]

\* The early return for max_pages == 0 || per_page == 0, else page = 1 and
\* an empty matches.
SearchBegin ==
    /\ api.pc = "search_begin"
    /\ api' = IF api.max_pages = 0 \/ api.per_page = 0
              THEN [api EXCEPT !.pc = "done", !.result = Some(ApiOk), !.returned = Some(<<>>)]
              ELSE [api EXCEPT !.pc = "search_request", !.page = 1, !.matches = <<>>]
    /\ UNCHANGED <<files, faultsOn, srv, login, proc>>

\* self.get_json("search.json", params with page and per_page, ...).await?:
\* the page's recordings, or an error that ends the search.
SearchGetJson ==
    /\ api.pc = "search_request"
    /\ \/ \E count \in 0..(MaxPerPage + 1) :
             api' = [api EXCEPT !.pc = "search_extend",
                                !.requests = Append(api.requests, api.page),
                                !.recordings = Recordings(api.page, count),
                                !.fetched = Append(api.fetched, Recordings(api.page, count))]
       \/ \E error \in SearchErrors :
             api' = [api EXCEPT !.pc = "done",
                                !.requests = Append(api.requests, api.page),
                                !.result = Some(error)]
    /\ UNCHANGED <<files, faultsOn, srv, login, proc>>

\* matches.extend(recordings), the break, or page += 1 (reached only with
\* page < max_pages, so the u32 cannot overflow); after the loop Ok(matches).
SearchExtend ==
    LET page_count == Len(api.recordings)
        matches == api.matches \o api.recordings
    IN
    /\ api.pc = "search_extend"
    /\ api' = IF LastPage(page_count, api.per_page, api.page, api.max_pages)
              THEN [api EXCEPT !.pc = "done", !.matches = matches, !.result = Some(ApiOk),
                               !.returned = Some(matches)]
              ELSE [api EXCEPT !.pc = "search_request", !.matches = matches,
                               !.page = api.page + 1]
    /\ UNCHANGED <<files, faultsOn, srv, login, proc>>

\* One search; the store and the login are not running.
InitSearch ==
    /\ keyring = None /\ nextKey = InstalledKey /\ configDir = FALSE /\ secretsDir = None
    /\ vaultFile = None /\ tmpFiles = {} /\ configFile = None
    /\ faultsOn = FALSE
    /\ \E per_page \in 0..MaxPerPage, max_pages \in 0..MaxPages :
          api = SearchCall(per_page, max_pages)
    /\ proc = [p \in Procs |-> [IdleProc EXCEPT !.pc = "off"]]
    /\ srv = NoServer
    /\ login = IdleLogin

NextSearch == SearchBegin \/ SearchGetJson \/ SearchExtend

SpecSearch == InitSearch /\ [][NextSearch]_vars

\* The search is awaited to its end and every request it sends is answered,
\* with a response or with an error.
SpecSearchLive == SpecSearch /\ WF_vars(NextSearch)

RECURSIVE Flatten(_)
Flatten(pages) == IF pages = <<>> THEN <<>> ELSE Head(pages) \o Flatten(Tail(pages))

SearchDone == api.pc = "done"

\* The requests so far are pages 1, 2, ... in order, at most max_pages of
\* them, each one sent only after full pages; a search that returned Ok
\* stopped at the first short page or at page max_pages and returns the
\* fetched pages concatenated in order; per_page or max_pages 0 sends no
\* request and returns the empty list; an error comes from the last request
\* sent and is the result.
SearchBounded ==
    /\ api.requests = [i \in 1..Len(api.requests) |-> i]
    /\ Len(api.requests) <= api.max_pages
    /\ \A i \in 1..Len(api.requests) :
          i < Len(api.requests) => Len(api.fetched[i]) >= api.per_page
    /\ (api.per_page = 0 \/ api.max_pages = 0) => api.requests = <<>>
    /\ SearchDone =>
          IF Unwrap(api.result).ok
          THEN /\ api.returned = Some(Flatten(api.fetched))
               /\ Len(api.fetched) = Len(api.requests)
               /\ (api.per_page = 0 \/ api.max_pages = 0) => api.returned = Some(<<>>)
               /\ (api.per_page > 0 /\ api.max_pages > 0) =>
                     /\ Len(api.requests) >= 1
                     /\ \/ Len(api.fetched[Len(api.fetched)]) < api.per_page
                        \/ Len(api.requests) = api.max_pages
          ELSE /\ api.returned = None
               /\ Unwrap(api.result) \in SearchErrors
               /\ Len(api.fetched) = Len(api.requests) - 1

====
